---------------------------- MODULE Spec2Model ----------------------------
(***************************************************************************)
(* File ingestion and note segmentation pipeline (FileProcessor).          *)
(*                                                                         *)
(* A text is a sequence of one-character strings.  The regular expressions *)
(* of extractNotesFromContent are modelled by what they match over the     *)
(* characters that occur in the texts of the model: "\n" is the only line  *)
(* terminator, the whitespace class \s is {" ", "\n", "\t"}.               *)
(***************************************************************************)
EXTENDS Integers, Sequences, FiniteSets, TLC

VARIABLES
    processedFile,  \* the ProcessedFile handed to the segmentation / synthesizer
    pc,             \* position of the segmentation pipeline: "ready", "extracted", "done"
    extracted,      \* outcome of extractNotesFromContent: strategy taken, threw, units
    notes,          \* the Note list returned by createNotesFromProcessedFile
    files,          \* the FileList handed to handleFileUpload
    fileIndex,      \* position of the for-loop of handleFileUpload in files
    isProcessingFiles,  \* the flag set by setIsProcessingFiles
    upc,            \* position of handleFileUpload: "idle", "loop", "awaiting",
                    \* "synthesizing", "finished"
    awaiting,       \* the platform operation processFile waits for, and the
                    \* function that started it
    locals,         \* what processFile has computed so far for the current file
    processedNotes, \* the list processedNotes of handleFileUpload
    savedNotes,     \* what has been handed to saveNotes
    resources,      \* the object URLs created and not revoked, the PDF
                    \* documents loaded and not destroyed
    calls,          \* the calls of processFile in flight at once, one per
                    \* invocation of handleFileUpload that has not finished
    ai,             \* a call of AIService.generateResponse: the configured
                    \* keys, its arguments, its position, the requests made
                    \* and the response returned
    speech          \* the EnhancedSpeechToTextService: its fields, the state
                    \* of the recognizer it shares, and a call of
                    \* transcribeAudioFile

segVars == <<processedFile, pc, extracted, notes>>

uploadVars ==
    <<files, fileIndex, isProcessingFiles, upc, awaiting, locals, processedNotes,
      savedNotes, resources, calls>>

serviceVars == <<ai, speech>>

-----------------------------------------------------------------------------
(* Program constants of extractNotesFromContent and of the synthesizer.    *)

HEADER_MAX_HASHES == 6
HEADER_MIN_CONTENT == 10
SECTION_MIN_CONTENT == 20
PARAGRAPH_MIN_LENGTH == 50
TITLE_MAX_LENGTH == 50
CHUNK_THRESHOLD == 1000
\* mutant: the chunks are cut at the threshold length
chunkSize_Threshold == CHUNK_THRESHOLD

chunkSize == 800

-----------------------------------------------------------------------------
(* Characters and basic string operations (JavaScript String semantics).   *)

\* the characters of a string literal
Chars(str) == SubSeq([i \in 1..Len(str) |-> SubSeq(str, i, i)], 1, Len(str))

IsWS(c) == c \in {" ", "\n", "\t"}

IsDigit(c) == c \in {"0", "1", "2", "3", "4", "5", "6", "7", "8", "9"}

IsBullet(c) == c \in {"-", "*", "U+2022"}

Min(S) == CHOOSE x \in S : \A y \in S : x <= y

Max(S) == CHOOSE x \in S : \A y \in S : x >= y

\* s.substring(from, to) with 0-based from (inclusive) and to (exclusive),
\* both clamped to the length of s
Substring(s, from, to) ==
    LET t == IF to > Len(s) THEN Len(s) ELSE to
    IN  IF from >= t THEN <<>> ELSE SubSeq(s, from + 1, t)

\* the 1-based slice s[from..to], empty when from > to
Slice(s, from, to) == IF from > to THEN <<>> ELSE SubSeq(s, from, to)

RECURSIVE SkipWS(_, _)
\* first index >= p that does not hold a whitespace character (greedy \s*)
SkipWS(s, p) == IF p <= Len(s) /\ IsWS(s[p]) THEN SkipWS(s, p + 1) ELSE p

RECURSIVE SkipWSBack(_, _)
\* last index <= p that does not hold a whitespace character (0 when none)
SkipWSBack(s, p) == IF p >= 1 /\ IsWS(s[p]) THEN SkipWSBack(s, p - 1) ELSE p

RECURSIVE SkipBlanksBack(_, _)
\* last index <= p that holds neither a space nor a tab (0 when none)
SkipBlanksBack(s, p) ==
    IF p >= 1 /\ s[p] \in {" ", "\t"} THEN SkipBlanksBack(s, p - 1) ELSE p

RECURSIVE SkipDigits(_, _)
SkipDigits(s, p) == IF p <= Len(s) /\ IsDigit(s[p]) THEN SkipDigits(s, p + 1) ELSE p

RECURSIVE SkipHashes(_, _)
SkipHashes(s, p) == IF p <= Len(s) /\ s[p] = "#" THEN SkipHashes(s, p + 1) ELSE p

\* String.prototype.trim
Trim(s) ==
    LET b == SkipWS(s, 1)
        e == SkipWSBack(s, Len(s))
    IN  Slice(s, b, e)

\* index of the first "\n" at or after p, Len(s) + 1 when there is none:
\* where a greedy .+ started at p stops, and where $ (m flag) matches
LineEnd(s, p) ==
    LET nls == {q \in p..Len(s) : s[q] = "\n"}
    IN  IF nls = {} THEN Len(s) + 1 ELSE Min(nls)

\* x.split('\n')[0]
FirstLine(s) == Slice(s, 1, LineEnd(s, 1) - 1)

\* ^ with the m flag
AtLineStart(s, p) == p = 1 \/ s[p - 1] = "\n"

\* s.includes(w)
Includes(s, w) ==
    \E p \in 1..(Len(s) - Len(w) + 1) : s[p] = w[1] /\ SubSeq(s, p, p + Len(w) - 1) = w

RECURSIVE SortedSeq(_)
\* the elements of a finite set of integers in increasing order
SortedSeq(S) == IF S = {} THEN <<>> ELSE LET m == Min(S) IN <<m>> \o SortedSeq(S \ {m})

RECURSIVE JoinLines(_)
\* lines.join('\n')
JoinLines(lines) ==
    IF Len(lines) = 0 THEN <<>>
    ELSE IF Len(lines) = 1 THEN lines[1]
    ELSE lines[1] \o <<"\n">> \o JoinLines(Tail(lines))

RECURSIVE NumToString(_)
\* the decimal digits of a natural number (a number in a template literal)
NumToString(n) ==
    LET d(k) == <<"0", "1", "2", "3", "4", "5", "6", "7", "8", "9">>[k + 1]
    IN  IF n < 10 THEN <<d(n)>> ELSE NumToString(n \div 10) \o <<d(n % 10)>>

\* s.split(re) for a regular expression without groups whose matches are the
\* intervals ms[k] = [from, to) in increasing order: the text between them
SplitBy(s, ms) ==
    [k \in 1..(Len(ms) + 1) |->
        Slice(s,
              IF k = 1 THEN 1 ELSE ms[k - 1].to,
              IF k = Len(ms) + 1 THEN Len(s) ELSE ms[k].from - 1)]

\* firstLine.length > 50 ? firstLine.substring(0, 50) + '...' : firstLine
TruncateTitle(firstLine) ==
    IF Len(firstLine) > TITLE_MAX_LENGTH
    THEN Substring(firstLine, 0, TITLE_MAX_LENGTH) \o <<".", ".", ".">>
    ELSE firstLine

\* title || fallback: the empty string is falsy
OrElse(title, fallback) == IF title = <<>> THEN fallback ELSE title

-----------------------------------------------------------------------------
(* extractNotesFromContent: the matches of its regular expressions.         *)

\* the matches found by a global scan: the candidates in increasing order,
\* each tried where the previous match ended or later; lasts[i] is the index
\* of the last character matched from cands[i], 0 when there is no match
RECURSIVE ScanMatches(_, _, _, _)
ScanMatches(cands, lasts, i, pos) ==
    IF i > Len(cands) THEN <<>>
    ELSE IF cands[i] < pos \/ lasts[i] = 0
         THEN ScanMatches(cands, lasts, i + 1, pos)
         ELSE <<[from |-> cands[i], to |-> lasts[i] + 1]>>
              \o ScanMatches(cands, lasts, i + 1, lasts[i] + 1)

\* positions where /^#{1,6}\s+/gm matches: a line start, one to six '#'
\* (a seventh '#' makes every backtrack fail), then whitespace
HeaderMarkerStarts(s) ==
    {p \in 1..Len(s) :
        /\ s[p] = "#"
        /\ AtLineStart(s, p)
        /\ LET h == SkipHashes(s, p)
           IN  h - p <= HEADER_MAX_HASHES /\ h <= Len(s) /\ IsWS(s[h])}

\* the end (exclusive) of the match of /^#{1,6}\s+/ at p: \s+ is greedy
HeaderMarkerEnd(s, p) == SkipWS(s, SkipHashes(s, p))

\* last index of the match of /^#{1,6}\s+(.+)$/m at p, 0 when it fails.  When
\* the greedy \s+ stops before a character, (.+) takes the rest of that line.
\* When \s+ runs to the end of the text it gives characters back until (.+)
\* finds a character that is no line terminator.
HeaderMatchLast(s, p) ==
    LET h == SkipHashes(s, p)
        m == SkipWS(s, h)
    IN  IF m <= Len(s) THEN LineEnd(s, m) - 1
        ELSE LET js == {j \in (h + 1)..Len(s) : s[j] # "\n"}
             IN  IF js = {} THEN 0 ELSE LineEnd(s, Max(js)) - 1

\* content.match(/^#{1,6}\s+(.+)$/gm), as intervals (null is the empty list)
headerMatches(s) ==
    LET cands == SortedSeq(HeaderMarkerStarts(s))
    IN  ScanMatches(cands, [k \in 1..Len(cands) |-> HeaderMatchLast(s, cands[k])], 1, 1)

\* content.split(/^#{1,6}\s+/gm)
headerSections(s) ==
    LET starts == SortedSeq(HeaderMarkerStarts(s))
    IN  SplitBy(s, [k \in 1..Len(starts) |->
                      [from |-> starts[k], to |-> HeaderMarkerEnd(s, starts[k])]])

\* headerMatch.replace(/^#{1,6}\s+/, '').trim()
headerTitle(headerMatch) ==
    Trim(Slice(headerMatch, HeaderMarkerEnd(headerMatch, 1), Len(headerMatch)))

\* positions where /^\d+\.\s+/gm matches
NumberedMarkerStarts(s) ==
    {p \in 1..Len(s) :
        /\ IsDigit(s[p])
        /\ AtLineStart(s, p)
        /\ LET d == SkipDigits(s, p)
           IN  d + 1 <= Len(s) /\ s[d] = "." /\ IsWS(s[d + 1])}

\* content.split(/^\d+\.\s+/gm)
numberedSections(s) ==
    LET starts == SortedSeq(NumberedMarkerStarts(s))
    IN  SplitBy(s, [k \in 1..Len(starts) |->
                      [from |-> starts[k],
                       to |-> SkipWS(s, SkipDigits(s, starts[k]) + 1)]])

\* positions where /\n\s*\n/ matches: the first "\n" of a run of whitespace
\* that holds a second one; the match ends with the last "\n" of the run
ParagraphBreakStarts(s) ==
    {p \in 1..Len(s) :
        /\ s[p] = "\n"
        /\ LET b == SkipBlanksBack(s, p - 1) IN b = 0 \/ s[b] # "\n"
        /\ \E q \in (p + 1)..(SkipWS(s, p) - 1) : s[q] = "\n"}

ParagraphBreakEnd(s, p) ==
    Max({q \in (p + 1)..(SkipWS(s, p) - 1) : s[q] = "\n"}) + 1

\* content.split(/\n\s*\n/).filter(p => p.trim().length > 50)
paragraphs(s) ==
    LET starts == SortedSeq(ParagraphBreakStarts(s))
        parts == SplitBy(s, [k \in 1..Len(starts) |->
                               [from |-> starts[k],
                                to |-> ParagraphBreakEnd(s, starts[k])]])
        Keep(p) == Len(Trim(p)) > PARAGRAPH_MIN_LENGTH
    IN  SelectSeq(parts, Keep)

\* positions where /^[-*•]\s+/gm matches
BulletMarkerStarts(s) ==
    {p \in 1..Len(s) :
        IsBullet(s[p]) /\ AtLineStart(s, p) /\ p + 1 <= Len(s) /\ IsWS(s[p + 1])}

\* content.split(/^[-*•]\s+/gm)
bulletSections(s) ==
    LET starts == SortedSeq(BulletMarkerStarts(s))
    IN  SplitBy(s, [k \in 1..Len(starts) |->
                      [from |-> starts[k], to |-> SkipWS(s, starts[k] + 1)]])

\* last index of the match of /Row \d+: (.+)/ at p, 0 when it fails
RowMatchLast(s, p) ==
    IF p + 3 > Len(s) \/ SubSeq(s, p, p + 3) # Chars("Row ") THEN 0
    ELSE LET d == SkipDigits(s, p + 4)
         IN  IF /\ d > p + 4
                /\ d + 2 <= Len(s)
                /\ s[d] = ":"
                /\ s[d + 1] = " "
                /\ s[d + 2] # "\n"
             THEN LineEnd(s, d + 2) - 1
             ELSE 0

\* content.match(/Row \d+: (.+)/g), as intervals (null is the empty list)
rowMatches(s) ==
    LET cands == SortedSeq({p \in 1..Len(s) : s[p] = "R"})
    IN  ScanMatches(cands, [k \in 1..Len(cands) |-> RowMatchLast(s, cands[k])], 1, 1)

\* row.replace(/Row \d+: /, ''): the match starts with the pattern
rowContent(row) == Slice(row, SkipDigits(row, 5) + 2, Len(row))

-----------------------------------------------------------------------------
(* JSON.parse of a row payload.  The payloads of the model are either the   *)
(* JSON.stringify text of a flat record of strings (what processCSVFile     *)
(* writes) or text that is no JSON; strings hold no escapes.                *)

NextQuote(t, p) ==
    LET qs == {q \in p..Len(t) : t[q] = "\""}
    IN  IF qs = {} THEN 0 ELSE Min(qs)

SyntaxError == [ok |-> FALSE, entries |-> <<>>]

RECURSIVE ParseMembers(_, _)
\* the members "key":"value" of an object from index p of t, up to the
\* closing brace that ends t
ParseMembers(t, p) ==
    IF p > Len(t) \/ t[p] # "\"" THEN SyntaxError
    ELSE LET kq == NextQuote(t, p + 1)
         IN  IF kq = 0 \/ kq + 2 > Len(t) \/ t[kq + 1] # ":" \/ t[kq + 2] # "\""
             THEN SyntaxError
             ELSE LET vq == NextQuote(t, kq + 3)
                      entry == [key |-> Slice(t, p + 1, kq - 1),
                                value |-> Slice(t, kq + 3, vq - 1)]
                  IN  IF vq = 0 \/ vq + 1 > Len(t) THEN SyntaxError
                      ELSE IF t[vq + 1] = "}"
                           THEN IF vq + 1 = Len(t)
                                THEN [ok |-> TRUE, entries |-> <<entry>>]
                                ELSE SyntaxError
                      ELSE IF t[vq + 1] = ","
                           THEN LET rest == ParseMembers(t, vq + 2)
                                IN  IF rest.ok
                                    THEN [ok |-> TRUE, entries |-> <<entry>> \o rest.entries]
                                    ELSE SyntaxError
                      ELSE SyntaxError

\* JSON.parse(rowContent): the entries of the record, or a SyntaxError
JSONParse(text) ==
    LET t == Trim(text)
    IN  IF Len(t) < 2 \/ t[1] # "{" THEN SyntaxError
        ELSE IF t = <<"{", "}">> THEN [ok |-> TRUE, entries |-> <<>>]
        ELSE ParseMembers(t, 2)

-----------------------------------------------------------------------------
(* extractNotesFromContent: the strategies.                                 *)

Returned(strategy, units) == [strategy |-> strategy, threw |-> FALSE, notes |-> units]

\* an uncaught TypeError leaves extractNotesFromContent: nothing is returned
Threw(strategy) == [strategy |-> strategy, threw |-> TRUE, notes |-> <<>>]

\* mutant: a section of exactly HEADER_MIN_CONTENT characters is kept
keepHeaderSection_AtLeast(sectionContent) == Len(sectionContent) >= HEADER_MIN_CONTENT

\* mutant: the length filter of Method 1 is left out
keepHeaderSection_NoFilter(sectionContent) == TRUE

\* if (sectionContent.length > 10)
keepHeaderSection(sectionContent) == Len(sectionContent) > HEADER_MIN_CONTENT

\* mutant: the heading line is cut from the content of the unit
headerNote_BodyOnly(content, hm, sections, i) ==
    [title |-> headerTitle(SubSeq(content, hm[i].from, hm[i].to - 1)),
     content |-> Trim(Slice(sections[i + 1], LineEnd(sections[i + 1], 1),
                            Len(sections[i + 1])))]

\* the unit pushed for sections[i], i >= 1 (0-based, as in the source)
headerNote(content, hm, sections, i) ==
    [title |-> headerTitle(SubSeq(content, hm[i].from, hm[i].to - 1)),
     content |-> Trim(sections[i + 1])]

\* Method 1.  headerMatches[i - 1] is undefined when the split found more
\* heading markers than the match found headings: .replace then throws
headerStrategy(content) ==
    LET hm == headerMatches(content)
        sections == headerSections(content)
        n == Len(sections) - 1
        Keep(u) == keepHeaderSection(u.content)
    IN  IF n > Len(hm) THEN Threw("header")
        ELSE Returned("header",
                      SelectSeq([i \in 1..n |-> headerNote(content, hm, sections, i)], Keep))

\* Methods 2 and 4: the unit of a section after the first, if long enough
sectionNotes(sections, label) ==
    LET Note(i) ==
            LET sectionContent == Trim(sections[i + 1])
                title == TruncateTitle(FirstLine(sectionContent))
            IN  [title |-> OrElse(title, label \o NumToString(i)),
                 content |-> sectionContent]
        Keep(u) == Len(u.content) > SECTION_MIN_CONTENT
    IN  SelectSeq([i \in 1..(Len(sections) - 1) |-> Note(i)], Keep)

\* Method 2
numberedStrategy(content) ==
    Returned("numbered", sectionNotes(numberedSections(content), Chars("Section ")))

\* Method 3
paragraphStrategy(content, fileName) ==
    LET ps == paragraphs(content)
        Note(k) ==
            LET title == TruncateTitle(FirstLine(Trim(ps[k])))
            IN  [title |-> OrElse(title, <<"N", "o", "t", "e", " ">> \o NumToString(k)
                                         \o <<" ", "f", "r", "o", "m", " ">> \o fileName),
                 content |-> Trim(ps[k])]
    IN  Returned("paragraph", [k \in 1..Len(ps) |-> Note(k)])

\* Method 4
bulletStrategy(content) ==
    Returned("bullet", sectionNotes(bulletSections(content), Chars("Item ")))

\* mutant: the title is the whole first value
rowNote_TitleNotCut(row, index) ==
    LET payload == Slice(row, SkipDigits(row, 5) + 2, Len(row))
        parsed == JSONParse(payload)
        fallback == Chars("Row ") \o NumToString(index + 1)
    IN  IF parsed.ok
        THEN LET first == IF Len(parsed.entries) = 0 THEN <<>> ELSE parsed.entries[1].value
             IN  [title |-> OrElse(first, fallback),
                  content |-> JoinLines([k \in 1..Len(parsed.entries) |->
                                  parsed.entries[k].key \o <<":", " ">>
                                  \o parsed.entries[k].value])]
        ELSE [title |-> fallback, content |-> payload]

\* the unit of rowMatches[index] (index 0-based): the parsed record, or the
\* raw payload when JSON.parse throws
rowNote(row, index) ==
    LET payload == rowContent(row)
        parsed == JSONParse(payload)
        fallback == Chars("Row ") \o NumToString(index + 1)
    IN  IF parsed.ok
        THEN LET first == IF Len(parsed.entries) = 0 THEN <<>> ELSE parsed.entries[1].value
             IN  [title |-> Substring(OrElse(first, fallback), 0, TITLE_MAX_LENGTH),
                  content |-> JoinLines([k \in 1..Len(parsed.entries) |->
                                  parsed.entries[k].key \o <<":", " ">>
                                  \o parsed.entries[k].value])]
        ELSE [title |-> fallback, content |-> payload]

\* Method 5
rowStrategy(content) ==
    LET rm == rowMatches(content)
    IN  Returned("row",
                 [k \in 1..Len(rm) |->
                     rowNote(SubSeq(content, rm[k].from, rm[k].to - 1), k - 1)])

\* for (let i = 0; i < content.length; i += chunkSize) chunks.push(...)
chunks(content) ==
    [k \in 1..((Len(content) + chunkSize - 1) \div chunkSize) |->
        Substring(content, (k - 1) * chunkSize, k * chunkSize)]

\* Fallback: split long content into chunks
chunkStrategy(content, fileName) ==
    LET cs == chunks(content)
        Note(k) ==
            LET title == TruncateTitle(FirstLine(Trim(cs[k])))
            IN  [title |-> OrElse(title, <<"P", "a", "r", "t", " ">> \o NumToString(k)
                                         \o <<" ", "f", "r", "o", "m", " ">> \o fileName),
                 content |-> Trim(cs[k])]
    IN  Returned("chunk", [k \in 1..Len(cs) |-> Note(k)])

\* fileName.replace(/\.[^/.]+$/, ''): the last '.' and what follows it, when
\* at least one character follows and none of them is '/'
baseName(fileName) ==
    LET dots == {p \in 1..Len(fileName) : fileName[p] = "."}
    IN  IF dots = {} THEN fileName
        ELSE LET d == Max(dots)
             IN  IF d < Len(fileName) /\ \A q \in (d + 1)..Len(fileName) : fileName[q] # "/"
                 THEN Slice(fileName, 1, d - 1)
                 ELSE fileName

\* Return single note if no structure found
singleStrategy(content, fileName) ==
    Returned("single",
             <<[title |-> OrElse(baseName(fileName), Chars("Extracted Content")),
                content |-> content]>>)

\* the conditions of the cascade, in the order of the source
headerApplies(content) == Len(headerMatches(content)) > 1

numberedApplies(content) == Len(numberedSections(content)) > 2

\* mutant: the paragraph threshold is off by one
paragraphApplies_MoreThanTwo(content) == Len(paragraphs(content)) > 2

paragraphApplies(content) == Len(paragraphs(content)) > 1

\* mutant: two segments of the bullet split are enough
bulletApplies_TwoSegments(content) == Len(bulletSections(content)) >= 2

bulletApplies(content) == Len(bulletSections(content)) > 2

rowMarkersPresent(content) ==
    Includes(content, Chars("Row 1:")) \/ Includes(content, Chars("Columns:"))

rowApplies(content) == rowMarkersPresent(content) /\ Len(rowMatches(content)) > 1

\* mutant: a text of exactly the threshold length is chunked
chunkApplies_AtLeast(content) == Len(content) >= CHUNK_THRESHOLD

chunkApplies(content) == Len(content) > CHUNK_THRESHOLD

extractNotesFromContent(content, fileName) ==
    IF headerApplies(content) THEN headerStrategy(content)
    ELSE IF numberedApplies(content) THEN numberedStrategy(content)
    ELSE IF paragraphApplies(content) THEN paragraphStrategy(content, fileName)
    ELSE IF bulletApplies(content) THEN bulletStrategy(content)
    ELSE IF rowApplies(content) THEN rowStrategy(content)
    ELSE IF chunkApplies(content) THEN chunkStrategy(content, fileName)
    ELSE singleStrategy(content, fileName)

-----------------------------------------------------------------------------
(* Type classifier.                                                         *)

\* mutant: a table that lists '.csv' under two categories
SUPPORTED_TYPES_CsvTwice ==
    <<[type |-> Chars("text"), extensions |-> <<Chars(".txt"), Chars(".md"), Chars(".csv")>>],
      [type |-> Chars("document"), extensions |-> <<Chars(".pdf"), Chars(".doc")>>],
      [type |-> Chars("spreadsheet"), extensions |-> <<Chars(".xlsx"), Chars(".csv")>>]>>

\* the table, in the order Object.entries scans it
SUPPORTED_TYPES ==
    <<[type |-> Chars("text"), extensions |-> <<
          <<".", "t", "x", "t">>, <<".", "m", "d">>,
          <<".", "r", "t", "f">>>>],
      [type |-> Chars("document"), extensions |-> <<
          <<".", "p", "d", "f">>, <<".", "d", "o", "c">>,
          <<".", "d", "o", "c", "x">>, <<".", "o", "d", "t">>>>],
      [type |-> Chars("spreadsheet"), extensions |-> <<
          <<".", "x", "l", "s">>, <<".", "x", "l", "s", "x">>,
          <<".", "c", "s", "v">>, <<".", "o", "d", "s">>>>],
      [type |-> Chars("presentation"), extensions |-> <<
          <<".", "p", "p", "t">>, <<".", "p", "p", "t", "x">>,
          <<".", "o", "d", "p">>>>],
      [type |-> Chars("image"), extensions |-> <<
          <<".", "j", "p", "g">>, <<".", "j", "p", "e", "g">>,
          <<".", "p", "n", "g">>, <<".", "g", "i", "f">>,
          <<".", "b", "m", "p">>, <<".", "w", "e", "b", "p">>,
          <<".", "s", "v", "g">>>>],
      [type |-> Chars("audio"), extensions |-> <<
          <<".", "m", "p", "3">>, <<".", "w", "a", "v">>,
          <<".", "o", "g", "g">>, <<".", "m", "4", "a">>,
          <<".", "f", "l", "a", "c">>, <<".", "a", "a", "c">>>>],
      [type |-> Chars("video"), extensions |-> <<
          <<".", "m", "p", "4">>, <<".", "a", "v", "i">>,
          <<".", "m", "o", "v">>, <<".", "w", "m", "v">>,
          <<".", "f", "l", "v">>, <<".", "w", "e", "b", "m">>,
          <<".", "m", "k", "v">>>>],
      [type |-> Chars("code"), extensions |-> <<
          <<".", "j", "s">>, <<".", "t", "s">>,
          <<".", "j", "s", "x">>, <<".", "t", "s", "x">>,
          <<".", "p", "y">>, <<".", "j", "a", "v", "a">>,
          <<".", "c", "p", "p">>, <<".", "c">>,
          <<".", "h", "t", "m", "l">>, <<".", "c", "s", "s">>,
          <<".", "j", "s", "o", "n">>, <<".", "x", "m", "l">>,
          <<".", "y", "a", "m", "l">>, <<".", "y", "m", "l">>>>],
      [type |-> Chars("archive"), extensions |-> <<
          <<".", "z", "i", "p">>, <<".", "r", "a", "r">>,
          <<".", "7", "z">>, <<".", "t", "a", "r">>,
          <<".", "g", "z">>>>]>>

\* String.prototype.toLowerCase over ASCII
LowerCaseOf ==
    [c \in {"A", "B", "C", "D", "E", "F", "G", "H", "I", "J", "K", "L", "M",
            "N", "O", "P", "Q", "R", "S", "T", "U", "V", "W", "X", "Y", "Z"} |->
        CASE c = "A" -> "a" [] c = "B" -> "b" [] c = "C" -> "c" [] c = "D" -> "d"
          [] c = "E" -> "e" [] c = "F" -> "f" [] c = "G" -> "g" [] c = "H" -> "h"
          [] c = "I" -> "i" [] c = "J" -> "j" [] c = "K" -> "k" [] c = "L" -> "l"
          [] c = "M" -> "m" [] c = "N" -> "n" [] c = "O" -> "o" [] c = "P" -> "p"
          [] c = "Q" -> "q" [] c = "R" -> "r" [] c = "S" -> "s" [] c = "T" -> "t"
          [] c = "U" -> "u" [] c = "V" -> "v" [] c = "W" -> "w" [] c = "X" -> "x"
          [] c = "Y" -> "y" [] c = "Z" -> "z"]

\* the lower case of 'U+0130' (capital I with dot above) is 'i' followed by
\* 'U+0307': the one character whose lower case is longer than itself
ToLowerCase(s) ==
    LET dotted == {k \in 1..Len(s) : s[k] = "U+0130"}
        Lower(c) == IF c \in DOMAIN LowerCaseOf THEN LowerCaseOf[c] ELSE c
        \* where the lower case of s[k] starts
        At(k) == k + Cardinality({d \in dotted : d < k})
    IN  IF dotted = {}
        THEN SubSeq([k \in 1..Len(s) |-> Lower(s[k])], 1, Len(s))
        ELSE SubSeq([j \in 1..(Len(s) + Cardinality(dotted)) |->
                        LET k == CHOOSE k \in 1..Len(s) :
                                     At(k) <= j /\ (k = Len(s) \/ j < At(k + 1))
                        IN  IF k \notin dotted THEN Lower(s[k])
                            ELSE IF j = At(k) THEN "i" ELSE "U+0307"],
                    1, Len(s) + Cardinality(dotted))

\* filename.toLowerCase().substring(filename.lastIndexOf('.')): lastIndexOf
\* is -1 without a '.', and substring(-1) is the whole name.  The index is
\* taken in filename and applied to its lower case
getFileExtension(filename) ==
    LET dots == {p \in 1..Len(filename) : filename[p] = "."}
        lastIndexOf == IF dots = {} THEN -1 ELSE Max(dots) - 1
        lowered == ToLowerCase(filename)
    IN  Substring(lowered, IF lastIndexOf < 0 THEN 0 ELSE lastIndexOf, Len(lowered))

\* the first category whose list holds the extension, 'unknown' otherwise
getFileType(extension) ==
    LET hits == {k \in 1..Len(SUPPORTED_TYPES) :
                    \E e \in 1..Len(SUPPORTED_TYPES[k].extensions) :
                        SUPPORTED_TYPES[k].extensions[e] = extension}
    IN  IF hits = {} THEN Chars("unknown") ELSE SUPPORTED_TYPES[Min(hits)].type

-----------------------------------------------------------------------------
(* Note synthesizer.                                                        *)

\* a value that is absent (undefined); no text of the model equals it
Undefined == <<"undefined">>

LARGE_FILE_BYTES == 10485760
SMALL_FILE_BYTES == 1024
SUMMARY_MAX_LENGTH == 200
SUMMARY_CUT == 150

\* typeMap[fileType] || 'document'
mapFileTypeToNoteType(fileType) ==
    IF fileType \in {Chars("text"), Chars("code")} THEN Chars("text")
    ELSE IF fileType \in {Chars("image"), Chars("audio"), Chars("video")} THEN fileType
    ELSE Chars("document")

generateSmartTags(file) ==
    LET content == ToLowerCase(file.content)
        Has(a, b) == Includes(content, a) \/ Includes(content, b)
        Tag(cond, tag) == IF cond THEN <<tag>> ELSE <<>>
    IN  Tag(file.size > LARGE_FILE_BYTES, Chars("large-file"))
        \o Tag(file.size < SMALL_FILE_BYTES, Chars("small-file"))
        \o Tag(Has(Chars("meeting"), Chars("agenda")), Chars("meeting"))
        \o Tag(Has(Chars("project"), Chars("task")), Chars("project"))
        \o Tag(Has(Chars("research"), Chars("study")), Chars("research"))
        \o Tag(Has(Chars("report"), Chars("analysis")), Chars("report"))
        \o Tag(Has(Chars("presentation"), Chars("slide")), Chars("presentation"))

\* mutant: the cut is made at the length limit, not at SUMMARY_CUT
generateSummary_CutAtLimit(content) ==
    IF Len(content) <= SUMMARY_MAX_LENGTH THEN content
    ELSE Trim(Substring(content, 0, SUMMARY_MAX_LENGTH)) \o <<".", ".", ".">>

generateSummary(content) ==
    IF Len(content) <= SUMMARY_MAX_LENGTH THEN content
    ELSE LET summary == Trim(Substring(content, 0, SUMMARY_CUT))
         IN  summary \o (IF Len(summary) < Len(content) THEN <<".", ".", ".">> ELSE <<>>)

RECURSIVE Slugify(_)
\* s.replace(/\s+/g, '-')
Slugify(s) ==
    IF s = <<>> THEN <<>>
    ELSE IF IsWS(s[1]) THEN <<"-">> \o Slugify(Slice(s, SkipWS(s, 1), Len(s)))
    ELSE <<s[1]>> \o Slugify(Tail(s))

\* mutant: the index is left out of the id
noteId_NoIndex(time, index, random) == <<"file", time, 0, random>>

\* `file_${Date.now()}_${index}_${Math.random().toString(36).substr(2, 9)}`:
\* the three parts are digits, digits and letters or digits, each between
\* '_', so two ids are equal exactly when the three parts are
noteId(time, index, random) == <<"file", time, index, random>>

\* `${baseFileName} (${n > 1 ? `${index + 1} of ${n}` : 'single note'})`
extractedFromLabel(baseFileName, index, n) ==
    baseFileName \o <<" ", "(">>
    \o (IF n > 1
        THEN NumToString(index + 1) \o <<" ", "o", "f", " ">> \o NumToString(n)
        ELSE <<"s", "i", "n", "g", "l", "e", " ", "n", "o", "t", "e">>)
    \o <<")">>

\* the Note built for extractedNotes[index] (index 0-based); now is the
\* reading of new Date(), time and random those of Date.now() and
\* Math.random() in the callback
buildNote(file, category, extractedNotes, smartTags, index, now, time, random) ==
    LET extractedNote == extractedNotes[index + 1]
        baseFileName == baseName(file.name)
    IN  [id |-> noteId(time, index, random),
         title |-> extractedNote.title,
         content |-> extractedNote.content,
         type |-> mapFileTypeToNoteType(file.type),
         tags |-> <<file.type, Chars("uploaded"), Chars("extracted"),
                    Slugify(ToLowerCase(baseFileName))>> \o smartTags,
         category |-> category,
         createdAt |-> now,
         updatedAt |-> now,
         summary |-> generateSummary(extractedNote.content),
         transcription |-> IF file.type \in {Chars("audio"), Chars("video")}
                           THEN file.extractedText ELSE Undefined,
         isStarred |-> FALSE,
         fileUrl |-> file.metadata.thumbnail,
         duration |-> file.metadata.duration,
         sourceFile |-> file.name,
         extractedFrom |-> extractedFromLabel(baseFileName, index, Len(extractedNotes))]

\* createNotesFromProcessedFile once extractNotesFromContent has returned
\* extractedNotes; smartTags is generateSmartTags(processedFile), the same
\* in every callback; clock[1] is the reading of new Date(), clock[k + 1]
\* and random[k] are the readings of the k-th callback
createNotes(file, category, extractedNotes, smartTags, clock, random) ==
    IF Len(extractedNotes) = 0 THEN <<>>
    ELSE [k \in 1..Len(extractedNotes) |->
            buildNote(file, category, extractedNotes, smartTags, k - 1,
                      clock[1], clock[k + 1], random[k])]

-----------------------------------------------------------------------------
(* Extractors: the text each category-specific extractor produces.  A       *)
(* character outside ASCII is written as the tokens of its UTF-16 code      *)
(* units, so that lengths are those of the JavaScript strings.              *)

RECURSIVE Join(_, _)
\* parts.join(sep)
Join(parts, sep) ==
    IF parts = <<>> THEN <<>>
    ELSE IF Len(parts) = 1 THEN parts[1]
    ELSE parts[1] \o sep \o Join(Tail(parts), sep)

RECURSIVE Power10(_)
Power10(d) == IF d = 0 THEN 1 ELSE 10 * Power10(d - 1)

RECURSIVE PadZeros(_, _)
PadZeros(s, d) == IF Len(s) >= d THEN s ELSE PadZeros(<<"0">> \o s, d)

\* (num / den).toFixed(digits) for num, den >= 0 and digits >= 1: the
\* nearest decimal, the larger one on a tie; 0 / 0 is NaN
ToFixed(num, den, digits) ==
    IF den = 0 THEN (IF num = 0 THEN Chars("NaN") ELSE Chars("Infinity"))
    ELSE LET rest == num % den
             scaled == (num \div den) * Power10(digits)
                       + (2 * rest * Power10(digits) + den) \div (2 * den)
         IN  NumToString(scaled \div Power10(digits)) \o <<".">>
             \o PadZeros(NumToString(scaled % Power10(digits)), digits)

\* new Date(ms).toLocaleString(): the rendering depends on the locale of the
\* browser; a stand-in that renders the count and holds no line break
toLocaleString(ms) == Chars("t+") \o NumToString(ms)

\* what a failed operation throws or rejects with: an Error with a message,
\* or a value that is no Error
Error(message) == [isError |-> TRUE, message |-> Chars(message)]

NotAnError == [isError |-> FALSE, message |-> <<>>]

\* error instanceof Error ? error.message : 'Unknown error'
errorMessage(error) == IF error.isError THEN error.message ELSE Chars("Unknown error")

\* the catch of processFile
processFileCatch(error) == (Chars("Error processing file: ")
                            \o errorMessage(error))

\* reader.onerror of processTextFile rejects with this
TEXT_READ_ERROR == Error("Failed to read text file")

\* mutant: a .doc file gets the message of the other document extensions
legacyDocMessage_NotImplemented ==
    Chars("Document content extraction not yet implemented for .doc files.")

legacyDocMessage == (Chars("Legacy .doc files are not supported. Please convert to .docx for")
                     \o Chars("mat."))

documentNotImplemented(extension) == (Chars("Document content extraction not yet implemented for ")
                                      \o extension
                                      \o Chars(" files."))

\* the text of page i once getTextContent has resolved with items
pdfPageText(i, items) ==
    LET pageText == Join(items, <<" ">>)
    IN  IF Trim(pageText) # <<>> THEN (Chars("\n--- Page ")
                                       \o NumToString(i)
                                       \o Chars(" ---\n")
                                       \o pageText
                                       \o Chars("\n")) ELSE <<>>

pdfPageFailed(i) == (Chars("\n--- Page ")
                     \o NumToString(i)
                     \o Chars(" ---\n[Page content could not be extracted]\n"))

RECURSIVE pdfPages(_, _)
\* the loop over the pages from page i on: [threw, error, fullText,
\* pageCount, hasText, hasImages]; getPage is outside the inner try, so its
\* failure ends the extraction, while a failure of getTextContent or of
\* getOperatorList is replaced by the note of pdfPageFailed
pdfPages(pages, i) ==
    IF i > Len(pages)
    THEN [threw |-> FALSE, error |-> NotAnError, fullText |-> <<>>,
          pageCount |-> 0, hasText |-> FALSE, hasImages |-> FALSE]
    ELSE IF pages[i].getPageFails
    THEN [threw |-> TRUE, error |-> pages[i].error, fullText |-> <<>>,
          pageCount |-> 0, hasText |-> FALSE, hasImages |-> FALSE]
    ELSE LET page == pages[i]
             text == IF page.textContentFails THEN <<>> ELSE pdfPageText(i, page.items)
             failed == page.textContentFails \/ page.operatorListFails
             rest == pdfPages(pages, i + 1)
         IN  [threw |-> rest.threw,
              error |-> rest.error,
              fullText |-> text \o (IF failed THEN pdfPageFailed(i) ELSE <<>>)
                           \o rest.fullText,
              pageCount |-> 1 + rest.pageCount,
              hasText |-> text # <<>> \/ rest.hasText,
              hasImages |-> (~failed /\ page.paintsImage) \/ rest.hasImages]

pdfErrorBanner(file, error) == (Chars("[PDF File: ")
                                \o file.name
                                \o Chars("]\n\n")
                                \o <<"U+274C">>
                                \o Chars(" **Extraction Error:**\n")
                                \o errorMessage(error)
                                \o Chars("\n\n")
                                \o <<"U+D83D", "U+DCA1">>
                                \o Chars(" **Troubleshooting:**\n")
                                \o <<"U+2022">>
                                \o Chars(" Ensure the PDF is not password-protected\n")
                                \o <<"U+2022">>
                                \o Chars(" Check if the file is corrupted\n")
                                \o <<"U+2022">>
                                \o Chars(" Try with a different PDF file"))

YesNo(b) == IF b THEN Chars("Yes") ELSE Chars("No")

\* extractPDFText once file.arrayBuffer() and getDocument have settled:
\* loaded is [rejected, error, pages]
extractPDFText(file, loaded) ==
    IF loaded.rejected THEN pdfErrorBanner(file, loaded.error)
    ELSE LET scan == pdfPages(loaded.pages, 1)
             pageCount == scan.pageCount
             fullText == scan.fullText
         IN  IF scan.threw THEN pdfErrorBanner(file, scan.error)
             ELSE (Chars("[PDF Document: ")
                   \o file.name
                   \o Chars("]\n\n"))
                  \o (<<"U+D83D", "U+DCC4">>
                      \o Chars(" **Document Analysis:**\n"))
                  \o (<<"U+2022">>
                      \o Chars(" Total Pages: ")
                      \o NumToString(pageCount)
                      \o Chars("\n"))
                  \o (<<"U+2022">>
                      \o Chars(" Text Content: ")
                      \o YesNo(scan.hasText)
                      \o Chars("\n"))
                  \o (<<"U+2022">>
                      \o Chars(" Images: ")
                      \o YesNo(scan.hasImages)
                      \o Chars("\n"))
                  \o (<<"U+2022">>
                      \o Chars(" File Size: ")
                      \o ToFixed(file.size, 1024, 1)
                      \o Chars(" KB\n\n"))
                  \o (IF Trim(fullText) # <<>>
                      THEN (<<"U+D83D", "U+DCDD">>
                            \o Chars(" **Extracted Content:**\n")
                            \o Trim(fullText))
                      ELSE (<<"U+26A0">>
                            \o <<"U+FE0F">>
                            \o Chars(" **Content Analysis:**\nThis PDF appears to contain only images ")
                            \o Chars("or scanned content. For better text extraction, consider:\n")
                            \o <<"U+2022">>
                            \o Chars(" Using OCR services\n")
                            \o <<"U+2022">>
                            \o Chars(" Converting to searchable PDF\n")
                            \o <<"U+2022">>
                            \o Chars(" Manual transcription for important content")))

wordErrorBanner(file, error) == (Chars("[Word Document: ")
                                 \o file.name
                                 \o Chars("]\n\n")
                                 \o <<"U+274C">>
                                 \o Chars(" **Extraction Error:**\n")
                                 \o errorMessage(error)
                                 \o Chars("\n\n")
                                 \o <<"U+D83D", "U+DCA1">>
                                 \o Chars(" **Troubleshooting:**\n")
                                 \o <<"U+2022">>
                                 \o Chars(" Ensure the file is a valid Word document\n")
                                 \o <<"U+2022">>
                                 \o Chars(" Check if the file is corrupted\n")
                                 \o <<"U+2022">>
                                 \o Chars(" Try saving as .docx format"))

RECURSIVE wordMessages(_, _)
wordMessages(messages, index) ==
    IF index >= Len(messages) THEN <<>>
    ELSE LET msg == messages[index + 1]
         IN  (<<"U+2022">>
              \o Chars(" ")
              \o NumToString(index + 1)
              \o Chars(". ")
              \o msg.message
              \o Chars("\n")) \o wordMessages(messages, index + 1)

\* extractWordText once file.arrayBuffer() and mammoth.extractRawText have
\* settled: loaded is [rejected, error, value, messages]
extractWordText(file, loaded) ==
    IF loaded.rejected THEN wordErrorBanner(file, loaded.error)
    ELSE LET result == loaded
         IN  (Chars("[Word Document: ")
              \o file.name
              \o Chars("]\n\n"))
             \o (<<"U+D83D", "U+DCC4">>
                 \o Chars(" **Document Analysis:**\n"))
             \o (<<"U+2022">>
                 \o Chars(" File Size: ")
                 \o ToFixed(file.size, 1024, 1)
                 \o Chars(" KB\n"))
             \o (<<"U+2022">>
                 \o Chars(" Content Length: ")
                 \o NumToString(Len(result.value))
                 \o Chars(" characters\n"))
             \o (<<"U+2022">>
                 \o Chars(" Messages: ")
                 \o NumToString(Len(result.messages))
                 \o Chars(" processing notes\n\n"))
             \o (IF Trim(result.value) # <<>>
                 THEN (<<"U+D83D", "U+DCDD">>
                       \o Chars(" **Extracted Content:**\n")
                       \o Trim(result.value))
                 ELSE (<<"U+26A0">>
                       \o <<"U+FE0F">>
                       \o Chars(" **Content Analysis:**\nThis Word document appears to be empty o")
                       \o Chars("r contains only formatting.\n\n")
                       \o <<"U+D83D", "U+DCA1">>
                       \o Chars(" **Suggestions:**\n")
                       \o <<"U+2022">>
                       \o Chars(" Check if content is in text boxes or shapes\n")
                       \o <<"U+2022">>
                       \o Chars(" Verify the document has actual text content\n")
                       \o <<"U+2022">>
                       \o Chars(" Consider copying content manually if important")))
             \o (IF Len(result.messages) > 0
                 THEN (Chars("\n\n")
                       \o <<"U+D83D", "U+DD0D">>
                       \o Chars(" **Processing Notes:**\n")) \o wordMessages(result.messages, 0)
                 ELSE <<>>)

\* JSON.stringify of a string
RECURSIVE JSONEscape(_)
JSONEscape(s) ==
    IF s = <<>> THEN <<>>
    ELSE (CASE s[1] = "\"" -> <<"\\", "\"">>
            [] s[1] = "\\" -> <<"\\", "\\">>
            [] s[1] = "\n" -> <<"\\", "n">>
            [] s[1] = "\t" -> <<"\\", "t">>
            [] OTHER -> <<s[1]>>) \o JSONEscape(Tail(s))

JSONString(s) == <<"\"">> \o JSONEscape(s) \o <<"\"">>

\* JSON.stringify of an object whose members are strings: row is the
\* sequence of its [key, value] members in insertion order
JSONStringifyObject(row) ==
    <<"{">>
    \o Join([k \in 1..Len(row) |->
                JSONString(row[k].key) \o <<":">> \o JSONString(row[k].value)],
            <<",">>)
    \o <<"}">>

\* JSON.stringify of an array of strings
JSONStringifyArray(row) ==
    <<"[">> \o Join([k \in 1..Len(row) |-> JSONString(row[k])], <<",">>) \o <<"]">>

\* Object.keys(row)
ObjectKeys(row) == [k \in 1..Len(row) |-> row[k].key]

PREVIEW_ROWS == 10

\* mutant: the preview shows the first row only
csvPreview_FirstRowOnly(preview, index) ==
    IF Len(preview) = 0 THEN <<>>
    ELSE Chars("Row 1: ") \o JSONStringifyObject(preview[1]) \o Chars("\n")

RECURSIVE csvPreview(_, _)
csvPreview(preview, index) ==
    IF index >= Len(preview) THEN <<>>
    ELSE LET row == preview[index + 1]
         IN  (Chars("Row ")
              \o NumToString(index + 1)
              \o Chars(": ")
              \o JSONStringifyObject(row)
              \o Chars("\n")) \o csvPreview(preview, index + 1)

\* the complete callback of Papa.parse
csvComplete(file, data) ==
    LET preview == SubSeq(data, 1, Min({PREVIEW_ROWS, Len(data)}))
    IN  (Chars("[CSV File: ")
         \o file.name
         \o Chars("]\n\n"))
        \o (<<"U+D83D", "U+DCCA">>
            \o Chars(" **Data Analysis:**\n"))
        \o (<<"U+2022">>
            \o Chars(" Total Rows: ")
            \o NumToString(Len(data))
            \o Chars("\n"))
        \o (<<"U+2022">>
            \o Chars(" Columns: ")
            \o Join(ObjectKeys(IF Len(data) > 0 THEN data[1] ELSE <<>>), Chars(", "))
            \o Chars("\n"))
        \o (<<"U+2022">>
            \o Chars(" File Size: ")
            \o ToFixed(file.size, 1024, 1)
            \o Chars(" KB\n\n"))
        \o (IF Len(preview) > 0
            THEN (<<"U+D83D", "U+DCCB">>
                  \o Chars(" **Preview (First 10 Rows):**\n")) \o csvPreview(preview, 0)
            ELSE <<>>)
        \o (IF Len(data) > PREVIEW_ROWS THEN (Chars("\n... (")
                                              \o NumToString(Len(data) - 10)
                                              \o Chars(" additional rows truncated)")) ELSE <<>>)

\* the error callback of Papa.parse
csvError(file, error) == (Chars("[CSV File: ")
                          \o file.name
                          \o Chars("]\n\n")
                          \o <<"U+274C">>
                          \o Chars(" **Parsing Error:**\n")
                          \o error.message
                          \o Chars("\n\n")
                          \o <<"U+D83D", "U+DCA1">>
                          \o Chars(" **Troubleshooting:**\n")
                          \o <<"U+2022">>
                          \o Chars(" Check CSV format and delimiters\n")
                          \o <<"U+2022">>
                          \o Chars(" Ensure proper encoding (UTF-8 recommended)\n")
                          \o <<"U+2022">>
                          \o Chars(" Verify file is not corrupted"))

excelErrorBanner(file, error) == (Chars("[Excel File: ")
                                  \o file.name
                                  \o Chars("]\n\n")
                                  \o <<"U+274C">>
                                  \o Chars(" **Processing Error:**\n")
                                  \o errorMessage(error)
                                  \o Chars("\n\n")
                                  \o <<"U+D83D", "U+DCA1">>
                                  \o Chars(" **Troubleshooting:**\n")
                                  \o <<"U+2022">>
                                  \o Chars(" Ensure the file is a valid Excel document\n")
                                  \o <<"U+2022">>
                                  \o Chars(" Check if the file is password-protected\n")
                                  \o <<"U+2022">>
                                  \o Chars(" Verify file is not corrupted"))

RECURSIVE excelPreview(_, _)
excelPreview(preview, index) ==
    IF index >= Len(preview) THEN <<>>
    ELSE LET row == preview[index + 1]
         IN  (Chars("Row ")
              \o NumToString(index + 1)
              \o Chars(": ")
              \o JSONStringifyArray(row)
              \o Chars("\n")) \o excelPreview(preview, index + 1)

\* processExcelFile once file.arrayBuffer() has settled and XLSX.read has
\* returned or thrown: loaded is [rejected, error, SheetNames, jsonData],
\* jsonData being the rows of the first worksheet
processExcelFile(file, loaded) ==
    IF loaded.rejected THEN excelErrorBanner(file, loaded.error)
    ELSE LET workbook == loaded
             firstSheetName == workbook.SheetNames[1]
             jsonData == loaded.jsonData
             preview == SubSeq(jsonData, 1, Min({PREVIEW_ROWS, Len(jsonData)}))
         IN  (Chars("[Excel File: ")
              \o file.name
              \o Chars("]\n\n"))
             \o (<<"U+D83D", "U+DCCA">>
                 \o Chars(" **Workbook Analysis:**\n"))
             \o (<<"U+2022">>
                 \o Chars(" Worksheets: ")
                 \o Join(workbook.SheetNames, Chars(", "))
                 \o Chars("\n"))
             \o (<<"U+2022">>
                 \o Chars(" File Size: ")
                 \o ToFixed(file.size, 1024, 1)
                 \o Chars(" KB\n\n"))
             \o (<<"U+D83D", "U+DCCB">>
                 \o Chars(" **Data from \"")
                 \o firstSheetName
                 \o Chars("\" Worksheet:**\n"))
             \o (<<"U+2022">>
                 \o Chars(" Total Rows: ")
                 \o NumToString(Len(jsonData))
                 \o Chars("\n"))
             \o (<<"U+2022">>
                 \o Chars(" Total Columns: ")
                 \o NumToString(IF Len(jsonData) > 0 THEN Len(jsonData[1]) ELSE 0)
                 \o Chars("\n\n"))
             \o excelPreview(preview, 0)
             \o (IF Len(jsonData) > PREVIEW_ROWS THEN (Chars("\n... (")
                                                       \o NumToString(Len(jsonData) - 10)
                                                       \o Chars(" additional rows truncated)")) ELSE <<>>)

unsupportedSpreadsheet(file, extension) == (Chars("[Spreadsheet File: ")
                                            \o file.name
                                            \o Chars("]\n\nUnsupported spreadsheet format: ")
                                            \o extension)

\* the values analyzeImage resolves with when the image has loaded: pixels
\* is [avgBrightness, colorVariety], the averages over the pixel data
imageLoaded(image) ==
    LET avgBrightness == image.avgBrightness
        colorVariety == image.colorVariety
        dataLength == 4 * image.width * image.height
    IN  [width |-> image.width,
         height |-> image.height,
         colorScheme |-> IF avgBrightness > 128 THEN Chars("Light/Bright") ELSE Chars("Dark/Muted"),
         complexity |-> IF dataLength > 1000000 THEN Chars("High")
                        ELSE IF dataLength > 100000 THEN Chars("Medium") ELSE Chars("Low"),
         brightness |-> IF avgBrightness > 170 THEN Chars("Very Bright")
                        ELSE IF avgBrightness > 128 THEN Chars("Bright")
                        ELSE IF avgBrightness > 85 THEN Chars("Medium") ELSE Chars("Dark"),
         contrast |-> IF colorVariety > 100 THEN Chars("High")
                      ELSE IF colorVariety > 50 THEN Chars("Medium") ELSE Chars("Low")]

\* the values img.onerror of analyzeImage resolves with
imageNotLoaded ==
    [width |-> 0,
     height |-> 0,
     colorScheme |-> Chars("Unknown"),
     complexity |-> Chars("Unknown"),
     brightness |-> Chars("Unknown"),
     contrast |-> Chars("Unknown")]

\* img.width > 800 && img.height > 600
looksLikeText(image) == image.width > 800 /\ image.height > 600

\* the text processImageFile returns once analyzeImage and
\* detectTextInImage have resolved
imageAnalysis(file, imageInfo, hasText) ==
    (Chars("[Image Analysis: ")
     \o file.name
     \o Chars("]\n\n"))
    \o (<<"U+D83D", "U+DCF8">>
        \o Chars(" **Image Details:**\n"))
    \o (<<"U+2022">>
        \o Chars(" File Size: ")
        \o ToFixed(file.size, 1024, 1)
        \o Chars(" KB\n"))
    \o (<<"U+2022">>
        \o Chars(" Format: ")
        \o file.type
        \o Chars("\n"))
    \o (<<"U+2022">>
        \o Chars(" Dimensions: ")
        \o NumToString(imageInfo.width)
        \o Chars("x")
        \o NumToString(imageInfo.height)
        \o Chars("px\n"))
    \o (<<"U+2022">>
        \o Chars(" Aspect Ratio: ")
        \o ToFixed(imageInfo.width, imageInfo.height, 2)
        \o Chars(":1\n\n"))
    \o (<<"U+D83D", "U+DD0D">>
        \o Chars(" **Visual Analysis:**\n"))
    \o (<<"U+2022">>
        \o Chars(" Color Scheme: ")
        \o imageInfo.colorScheme
        \o Chars("\n"))
    \o (<<"U+2022">>
        \o Chars(" Complexity: ")
        \o imageInfo.complexity
        \o Chars("\n"))
    \o (<<"U+2022">>
        \o Chars(" Brightness: ")
        \o imageInfo.brightness
        \o Chars("\n"))
    \o (<<"U+2022">>
        \o Chars(" Contrast: ")
        \o imageInfo.contrast
        \o Chars("\n\n"))
    \o (<<"U+D83D", "U+DCDD">>
        \o Chars(" **Content Detection:**\n"))
    \o (IF hasText
        THEN (<<"U+2022">>
              \o Chars(" ")
              \o <<"U+2705">>
              \o Chars(" Text content detected\n"))
             \o (<<"U+2022">>
                 \o Chars(" ")
                 \o <<"U+D83D", "U+DCA1">>
                 \o Chars(" This image likely contains readable text\n"))
             \o (<<"U+2022">>
                 \o Chars(" ")
                 \o <<"U+D83D", "U+DD0D">>
                 \o Chars(" Consider using OCR services for full text extraction\n"))
        ELSE (<<"U+2022">>
              \o Chars(" ")
              \o <<"U+274C">>
              \o Chars(" No text content detected\n"))
             \o (<<"U+2022">>
                 \o Chars(" ")
                 \o <<"U+D83C", "U+DFA8">>
                 \o Chars(" This appears to be a visual/image-only file\n")))
    \o (Chars("\n")
        \o <<"U+D83D", "U+DCA1">>
        \o Chars(" **Suggested Actions:**\n"))
    \o (IF hasText
        THEN (<<"U+2022">>
              \o Chars(" Use OCR tools for text extraction\n"))
             \o (<<"U+2022">>
                 \o Chars(" Apply AI vision models for detailed analysis\n"))
             \o (<<"U+2022">>
                 \o Chars(" Consider image optimization for web use\n"))
        ELSE (<<"U+2022">>
              \o Chars(" Use AI vision for object/scene recognition\n"))
             \o (<<"U+2022">>
                 \o Chars(" Apply image analysis for content understanding\n"))
             \o (<<"U+2022">>
                 \o Chars(" Consider adding descriptive tags\n")))
    \o (Chars("\n*Note: This is an enhanced analysis. For detailed text extract")
        \o Chars("ion, consider using OCR services.*"))

\* canvas.toDataURL() of the thumbnail: a data URL of the drawn canvas
thumbnailOf(file) == Chars("data:image/png;thumbnail,") \o file.name

AUDIO_BYTES_PER_SECOND == 16000

VIDEO_BYTES_PER_SECOND == 100000

processAudioFile(file) ==
    LET estimatedDuration == file.size \div AUDIO_BYTES_PER_SECOND
    IN  [transcription |-> (Chars("[Audio Transcription from ")
                            \o file.name
                            \o Chars("]\n\n")
                            \o <<"U+D83C", "U+DFB5">>
                            \o Chars(" **Audio Analysis:**\n")
                            \o <<"U+2022">>
                            \o Chars(" File Size: ")
                            \o ToFixed(file.size, 1024, 1)
                            \o Chars(" KB\n")
                            \o <<"U+2022">>
                            \o Chars(" Estimated Duration: ")
                            \o NumToString(estimatedDuration)
                            \o Chars(" seconds\n")
                            \o <<"U+2022">>
                            \o Chars(" Format: ")
                            \o file.type
                            \o Chars("\n\n")
                            \o <<"U+D83D", "U+DCA1">>
                            \o Chars(" **Transcription Note:**\nThis is simulated audio transcription.")
                            \o Chars(" In a real implementation, you would use:\n")
                            \o <<"U+2022">>
                            \o Chars(" Web Speech API for browser-based transcription\n")
                            \o <<"U+2022">>
                            \o Chars(" Google Speech-to-Text API\n")
                            \o <<"U+2022">>
                            \o Chars(" OpenAI Whisper API\n")
                            \o <<"U+2022">>
                            \o Chars(" Azure Speech Services\n\n")
                            \o <<"U+D83D", "U+DD0D">>
                            \o Chars(" **Content Analysis:**\n")
                            \o <<"U+2022">>
                            \o Chars(" Audio appears to contain speech content\n")
                            \o <<"U+2022">>
                            \o Chars(" Consider using professional transcription services for accuracy")
                            \o Chars("\n")
                            \o <<"U+2022">>
                            \o Chars(" Multiple speakers may require speaker identification")),
         duration |-> estimatedDuration]

processVideoFile(file) ==
    LET estimatedDuration == file.size \div VIDEO_BYTES_PER_SECOND
    IN  [transcription |-> (Chars("[Video Analysis from ")
                            \o file.name
                            \o Chars("]\n\n")
                            \o <<"U+D83C", "U+DFAC">>
                            \o Chars(" **Video Analysis:**\n")
                            \o <<"U+2022">>
                            \o Chars(" File Size: ")
                            \o ToFixed(file.size, 1024, 1)
                            \o Chars(" KB\n")
                            \o <<"U+2022">>
                            \o Chars(" Estimated Duration: ")
                            \o NumToString(estimatedDuration)
                            \o Chars(" seconds\n")
                            \o <<"U+2022">>
                            \o Chars(" Format: ")
                            \o file.type
                            \o Chars("\n\n")
                            \o <<"U+D83D", "U+DCA1">>
                            \o Chars(" **Processing Note:**\nThis is simulated video analysis. In a re")
                            \o Chars("al implementation, you would:\n")
                            \o <<"U+2022">>
                            \o Chars(" Extract audio track for transcription\n")
                            \o <<"U+2022">>
                            \o Chars(" Generate video thumbnails at key moments\n")
                            \o <<"U+2022">>
                            \o Chars(" Use AI vision for scene analysis\n")
                            \o <<"U+2022">>
                            \o Chars(" Apply object and face recognition\n\n")
                            \o <<"U+D83D", "U+DD0D">>
                            \o Chars(" **Content Analysis:**\n")
                            \o <<"U+2022">>
                            \o Chars(" Video appears to contain both visual and audio content\n")
                            \o <<"U+2022">>
                            \o Chars(" Consider using video analysis services for detailed insights\n")
                            \o <<"U+2022">>
                            \o Chars(" Multiple scenes may require segmentation analysis")),
         duration |-> estimatedDuration,
         thumbnail |-> Chars("data:image/svg+xml;base64,PHN2Zy")]

getLanguageFromExtension(extension) ==
    CASE extension = Chars(".js") -> Chars("JavaScript")
      [] extension = Chars(".ts") -> Chars("TypeScript")
      [] extension = Chars(".jsx") -> Chars("React JSX")
      [] extension = Chars(".tsx") -> Chars("React TSX")
      [] extension = Chars(".py") -> Chars("Python")
      [] extension = Chars(".java") -> Chars("Java")
      [] extension = Chars(".cpp") -> Chars("C++")
      [] extension = Chars(".c") -> Chars("C")
      [] extension = Chars(".html") -> Chars("HTML")
      [] extension = Chars(".css") -> Chars("CSS")
      [] extension = Chars(".json") -> Chars("JSON")
      [] extension = Chars(".xml") -> Chars("XML")
      [] extension = Chars(".yaml") -> Chars("YAML")
      [] extension = Chars(".yml") -> Chars("YAML")
      [] OTHER -> Chars("Unknown")

\* text.split('\n').length
LineCount(text) == Cardinality({p \in 1..Len(text) : text[p] = "\n"}) + 1

\* processCodeFile once processTextFile has resolved with text
processCodeFile(file, text) ==
    LET extension == getFileExtension(file.name)
        language == getLanguageFromExtension(extension)
    IN  (Chars("[Code File: ")
         \o file.name
         \o Chars("]\n\n")
         \o <<"U+D83D", "U+DCBB">>
         \o Chars(" **Code Analysis:**\n")
         \o <<"U+2022">>
         \o Chars(" Language: ")
         \o language
         \o Chars("\n")
         \o <<"U+2022">>
         \o Chars(" Lines: ")
         \o NumToString(LineCount(text))
         \o Chars("\n")
         \o <<"U+2022">>
         \o Chars(" Size: ")
         \o NumToString(file.size)
         \o Chars(" bytes\n")
         \o <<"U+2022">>
         \o Chars(" Characters: ")
         \o NumToString(Len(text))
         \o Chars("\n\n")
         \o <<"U+D83D", "U+DCDD">>
         \o Chars(" **Source Code:**\n")
         \o <<"U+0060">>
         \o <<"U+0060">>
         \o <<"U+0060">>
         \o ToLowerCase(language)
         \o Chars("\n")
         \o text
         \o Chars("\n")
         \o <<"U+0060">>
         \o <<"U+0060">>
         \o <<"U+0060">>
         \o Chars("\n\n")
         \o <<"U+D83D", "U+DD0D">>
         \o Chars(" **Code Insights:**\n")
         \o <<"U+2022">>
         \o Chars(" This appears to be a ")
         \o language
         \o Chars(" source file\n")
         \o <<"U+2022">>
         \o Chars(" Consider using syntax highlighting for better readability\n")
         \o <<"U+2022">>
         \o Chars(" Code analysis tools can provide additional insights"))

processArchiveFile(file) == (Chars("[Archive File: ")
                             \o file.name
                             \o Chars("]\n\n")
                             \o <<"U+D83D", "U+DCE6">>
                             \o Chars(" **Archive Analysis:**\n")
                             \o <<"U+2022">>
                             \o Chars(" File Size: ")
                             \o ToFixed(file.size, 1024, 1)
                             \o Chars(" KB\n")
                             \o <<"U+2022">>
                             \o Chars(" Type: ")
                             \o file.type
                             \o Chars("\n")
                             \o <<"U+2022">>
                             \o Chars(" Format: ")
                             \o getFileExtension(file.name)
                             \o Chars("\n\n")
                             \o <<"U+D83D", "U+DCA1">>
                             \o Chars(" **Processing Note:**\nThis is simulated archive analysis. In a ")
                             \o Chars("real implementation, you would:\n")
                             \o <<"U+2022">>
                             \o Chars(" Use JSZip or similar libraries for extraction\n")
                             \o <<"U+2022">>
                             \o Chars(" Analyze archive contents and structure\n")
                             \o <<"U+2022">>
                             \o Chars(" Extract individual files for processing\n")
                             \o <<"U+2022">>
                             \o Chars(" Provide content previews\n\n")
                             \o <<"U+D83D", "U+DD0D">>
                             \o Chars(" **Content Analysis:**\n")
                             \o <<"U+2022">>
                             \o Chars(" Archive appears to contain multiple files\n")
                             \o <<"U+2022">>
                             \o Chars(" Consider extracting and processing individual components\n")
                             \o <<"U+2022">>
                             \o Chars(" Archive size suggests substantial content"))

GENERIC_PREVIEW_LENGTH == 500

\* processGenericFile once processTextFile has resolved with text
processGenericFile(file, text) ==
    LET preview == IF Len(text) > GENERIC_PREVIEW_LENGTH
                   THEN Substring(text, 0, GENERIC_PREVIEW_LENGTH) \o Chars("...")
                   ELSE text
    IN  (Chars("[Generic File: ")
         \o file.name
         \o Chars("]\n\n")
         \o <<"U+D83D", "U+DCC4">>
         \o Chars(" **File Analysis:**\n")
         \o <<"U+2022">>
         \o Chars(" Type: ")
         \o file.type
         \o Chars("\n")
         \o <<"U+2022">>
         \o Chars(" Size: ")
         \o ToFixed(file.size, 1024, 1)
         \o Chars(" KB\n")
         \o <<"U+2022">>
         \o Chars(" Last Modified: ")
         \o toLocaleString(file.lastModified)
         \o Chars("\n\n")
         \o <<"U+D83D", "U+DCDD">>
         \o Chars(" **Content Preview:**\n")
         \o preview
         \o Chars("\n\n")
         \o <<"U+D83D", "U+DCA1">>
         \o Chars(" **Note:** This file was processed as generic text. Consider usi")
         \o Chars("ng specialized tools for better analysis."))

\* EnhancedSpeechToTextService.estimateAudioDuration: the seconds as the
\* fraction num / den.  Math.max(1, Math.min(size * 8 / avgBitrate, 7200))
estimateAudioDuration(audioBlob) ==
    LET format == audioBlob.type
        avgBitrate == IF Includes(format, Chars("webm")) THEN 32000
                      ELSE IF Includes(format, Chars("mp3")) THEN 128000
                      ELSE IF Includes(format, Chars("wav")) THEN 1411000
                      ELSE IF Includes(format, Chars("m4a")) THEN 256000
                      ELSE 24000
        bits == audioBlob.size * 8
        whole == bits \div avgBitrate
        rest == bits % avgBitrate
    IN  IF whole > 7200 \/ (whole = 7200 /\ rest > 0) THEN [num |-> 7200, den |-> 1]
        ELSE IF whole < 1 THEN [num |-> 1, den |-> 1]
        ELSE [num |-> bits, den |-> avgBitrate]

\* processGenericFile once processTextFile has rejected
binaryFileBanner(file) == (Chars("[Binary File: ")
                           \o file.name
                           \o Chars("]\n\n")
                           \o <<"U+D83D", "U+DD12">>
                           \o Chars(" **Binary File Analysis:**\n")
                           \o <<"U+2022">>
                           \o Chars(" Type: ")
                           \o file.type
                           \o Chars("\n")
                           \o <<"U+2022">>
                           \o Chars(" Size: ")
                           \o ToFixed(file.size, 1024, 1)
                           \o Chars(" KB\n")
                           \o <<"U+2022">>
                           \o Chars(" Last Modified: ")
                           \o toLocaleString(file.lastModified)
                           \o Chars("\n\n")
                           \o <<"U+26A0">>
                           \o <<"U+FE0F">>
                           \o Chars(" **Content Note:**\nThis appears to be a binary file that cannot")
                           \o Chars(" be processed as text.\n\n")
                           \o <<"U+D83D", "U+DCA1">>
                           \o Chars(" **Suggestions:**\n")
                           \o <<"U+2022">>
                           \o Chars(" Use specialized binary analysis tools\n")
                           \o <<"U+2022">>
                           \o Chars(" Check if file has a text-based format\n")
                           \o <<"U+2022">>
                           \o Chars(" Consider file conversion if possible"))

-----------------------------------------------------------------------------
(* The inputs of the model: texts made of a few pieces that carry the       *)
(* structural markers of the strategies, and texts that end in a run of     *)
(* filler characters whose length lies around the chunking thresholds.      *)

MaxPieces == 2
ScenarioBLength == 2500

\* Date.now() and Math.random() are compared for equality only: two
\* values each give equal and different readings
ClockValues == {0, 1}

RandomValues == {0, 1}

Pieces ==
    <<
      \* a heading with its section (Scenario A, first half)
      Chars("# Intro\nHello\n\n"),
      \* a heading with its section (Scenario A, second half)
      Chars("# Details\nWorld"),
      \* a heading with a short section, then a marker without title text
      Chars("# a\n# "),
      \* a numbered section of more than 20 characters
      Chars("1. first numbered section\n"),
      \* a numbered section of at most 20 characters
      Chars("2. x\n"),
      \* a paragraph of more than 50 characters and a blank line
      Chars("This paragraph about the project meeting is long enough.\n\n"),
      \* a bullet item of more than 20 characters
      Chars("- a bullet item that is long\n"),
      \* a row line as processCSVFile writes it
      Chars("Row 1: {\"a\":\"b\"}\n"),
      \* a row line whose payload is no JSON
      Chars("Row 2: x\n"),
      \* the column line of a spreadsheet banner
      Chars("Columns: a\n"),
      \* whitespace
      Chars(" \n"),
      \* a title line, a bullet item of more than 20 characters and one of
      \* at most 20 characters
      Chars("Shopping\n* milk and bread and cheese now\n") \o <<"U+2022">> \o Chars(" eggs\n"),
      \* a heading whose section has exactly HEADER_MIN_CONTENT characters
      Chars("# Tasks\nmilk\n"),
      \* a row line whose record has an empty first value, and one whose
      \* first value is longer than TITLE_MAX_LENGTH
      Chars("Row 1: {\"a\":\"\",\"b\":\"c\"}\n")
      \o Chars("Row 2: {\"t\":\"a first value that is longer than fifty characters by a few\"}\n")
    >>

RECURSIVE Concat(_)
Concat(ps) == IF Len(ps) = 0 THEN <<>> ELSE Pieces[Head(ps)] \o Concat(Tail(ps))

Filler(n) == [k \in 1..n |-> "x"]

PieceSeqs(n) == UNION {[1..k -> 1..Len(Pieces)] : k \in 0..n}

FillerLengths ==
    {CHUNK_THRESHOLD, CHUNK_THRESHOLD + 1, 2 * chunkSize, 2 * chunkSize + 1,
     ScenarioBLength}

Texts ==
    {Concat(ps) : ps \in PieceSeqs(MaxPieces)}
    \cup {Concat(ps) \o Filler(n) : ps \in PieceSeqs(1), n \in FillerLengths}

FileNames ==
    {<<"a", ".", "m", "d">>,
     <<".", "t", "x", "t">>,
     <<"M", "y", " ", "N", "o", "t", "e", "s">>}

\* the return statement of processFile; lastModified and the MIME type of
\* the metadata are not read after it
ProcessedFileOf(name, fileType, size, extractedText, thumbnail, duration) ==
    [name |-> name,
     type |-> fileType,
     size |-> size,
     content |-> extractedText,
     extractedText |-> extractedText,
     metadata |-> [originalName |-> name, size |-> size,
                   thumbnail |-> thumbnail, duration |-> duration]]

\* the ProcessedFile of an upload whose extracted text is content
MakeProcessedFile(name, content) ==
    ProcessedFileOf(name, getFileType(getFileExtension(name)), Len(content),
                    content, Undefined, Undefined)

\* Scenario A of the specification
SCENARIO_A == Chars("# Intro\nHello\n\n# Details\nWorld")

\* the readings of the clock during one call: they never decrease
ClockReadings(n) ==
    {c \in [1..n -> ClockValues] : \A k \in 1..(n - 1) : c[k] <= c[k + 1]}

RandomReadings(n) == [1..n -> RandomValues]

-----------------------------------------------------------------------------
(* Segmentation and synthesis of one ProcessedFile.                         *)

NotExtracted == [strategy |-> "none", threw |-> FALSE, notes |-> <<>>]

NotAwaiting == [op |-> "none", caller |-> "none"]

NoLocals == [extractedText |-> <<>>, imageInfo |-> imageNotLoaded]

NoResources == [objectURLs |-> 0, pdfDocuments |-> 0]

\* the speech service before any call
NoSpeech ==
    [isSupported |-> FALSE, apiKey |-> FALSE, isListening |-> FALSE,
     handlers |-> "none", started |-> FALSE, session |-> "none",
     ending |-> FALSE, errored |-> FALSE,
     pc |-> "idle", audioBlob |-> [type |-> <<>>, size |-> 0],
     enableAnalysis |-> FALSE, tried |-> <<>>, whisperText |-> <<>>,
     playPending |-> FALSE, hasResult |-> FALSE, transcriptionText |-> <<>>,
     results |-> 0,
     result |-> [success |-> FALSE, text |-> Undefined,
                 confidence |-> [num |-> 0, den |-> 10], analysis |-> FALSE]]

\* generateResponse has not been called
NoGeneration ==
    [pc |-> "idle",
     keys |-> [OPENROUTER_API_KEY |-> FALSE, DEEPSEEK_API_KEY |-> FALSE,
               GEMINI_API_KEY |-> FALSE],
     userInput |-> <<>>, noteContent |-> <<>>, isEditing |-> FALSE,
     requests |-> <<>>, response |-> [content |-> Undefined]]

\* no upload is in progress
UploadIdle ==
    /\ files = <<>>
    /\ fileIndex = 0
    /\ isProcessingFiles = FALSE
    /\ upc = "idle"
    /\ awaiting = NotAwaiting
    /\ locals = NoLocals
    /\ processedNotes = <<>>
    /\ savedNotes = <<>>
    /\ resources = NoResources
    /\ calls = <<>>

Init ==
    /\ \E name \in FileNames, content \in Texts :
          processedFile = MakeProcessedFile(name, content)
    /\ pc = "ready"
    /\ extracted = NotExtracted
    /\ notes = <<>>
    /\ UploadIdle
    /\ ai = NoGeneration
    /\ speech = NoSpeech

\* createNotesFromProcessedFile, first statement: the call of
\* extractNotesFromContent returns or throws
Extract ==
    /\ pc = "ready"
    /\ extracted' = extractNotesFromContent(processedFile.content, processedFile.name)
    /\ pc' = "extracted"
    /\ UNCHANGED <<processedFile, notes>>
    /\ UNCHANGED <<uploadVars, serviceVars>>

\* createNotesFromProcessedFile, the rest: the exception of the call
\* propagates, or the notes are built and returned
CreateNotes ==
    /\ pc = "extracted"
    /\ \/ /\ extracted.threw
          /\ pc' = "threw"
          /\ notes' = <<>>
       \/ /\ ~extracted.threw
          /\ LET smartTags == generateSmartTags(processedFile)
             IN  \E clock \in ClockReadings(Len(extracted.notes) + 1),
                    random \in RandomReadings(Len(extracted.notes)) :
                    notes' = createNotes(processedFile, Chars("Uploads"), extracted.notes,
                                         smartTags, clock, random)
          /\ pc' = "done"
    /\ UNCHANGED <<processedFile, extracted>>
    /\ UNCHANGED <<uploadVars, serviceVars>>

Next == Extract \/ CreateNotes

vars == <<segVars, uploadVars, serviceVars>>

Spec == Init /\ [][Next]_vars

-----------------------------------------------------------------------------
(* handleFileUpload: the files of a batch are processed one after the       *)
(* other.  A File carries, beside name, MIME type and size, what the         *)
(* platform will answer when its bytes are read, decoded or parsed.         *)

MaxFiles == 2

NoImage ==
    [decodes |-> FALSE, width |-> 0, height |-> 0, avgBrightness |-> 0,
     colorVariety |-> 0]

NoParse ==
    [rejected |-> FALSE, error |-> NotAnError, pages |-> <<>>, value |-> <<>>,
     messages |-> <<>>, SheetNames |-> <<>>, jsonData |-> <<>>, data |-> <<>>]

FileOf(name, type, size) ==
    [name |-> Chars(name), type |-> Chars(type), size |-> size, lastModified |-> 0,
     readFails |-> FALSE, text |-> <<>>, image |-> NoImage, parsed |-> NoParse]

Unreadable(file) == [file EXCEPT !.readFails = TRUE]

Rejecting(file, message) ==
    [file EXCEPT !.parsed = [NoParse EXCEPT !.rejected = TRUE, !.error = Error(message)]]

PdfPage(items, paintsImage) ==
    [getPageFails |-> FALSE, error |-> NotAnError, textContentFails |-> FALSE,
     items |-> items, operatorListFails |-> FALSE, paintsImage |-> paintsImage]

CsvRow(name, city) ==
    <<[key |-> Chars("name"), value |-> Chars(name)],
      [key |-> Chars("city"), value |-> Chars(city)]>>

\* a .csv file that Papa.parse reads as n rows of two columns, the k-th
\* row named after k
CsvFile(n) ==
    [FileOf("rows.csv", "text/csv", 40 * n) EXCEPT
        !.parsed.data =
            [k \in 1..n |->
                <<[key |-> Chars("name"), value |-> <<"n">> \o NumToString(k)],
                  [key |-> Chars("city"), value |-> Chars("Oslo")]>>]]

\* Scenario C of the specification: a .csv file of 15 rows
ScenarioCRows == 15

\* row counts below, at and above the length of the preview
CsvRowCounts == {0, 1, PREVIEW_ROWS, PREVIEW_ROWS + 1, ScenarioCRows}

\* files whose extraction succeeds
GoodFiles ==
    {[FileOf("notes.md", "text/markdown", 30) EXCEPT !.text = SCENARIO_A],
     [FileOf("todo.txt", "text/plain", 21) EXCEPT
         !.text = Chars("# Intro\nHello\n\n") \o Chars("# a\n# ")],
     [FileOf("paper.pdf", "application/pdf", 20480) EXCEPT
         !.parsed.pages = <<PdfPage(<<Chars("Hello"), Chars("world")>>, TRUE),
                            [PdfPage(<<>>, FALSE) EXCEPT !.textContentFails = TRUE]>>],
     [FileOf("letter.docx", "application/msword", 4096) EXCEPT
         !.parsed.value = Chars("Dear reader"),
         !.parsed.messages = <<[message |-> Chars("Unrecognised style")]>>],
     FileOf("old.doc", "application/msword", 4096),
     FileOf("draft.odt", "application/vnd.oasis", 4096),
     [FileOf("people.csv", "text/csv", 40) EXCEPT
         !.parsed.data = <<CsvRow("Ann", "Oslo"), CsvRow("Bob", "Rome")>>],
     [FileOf("sheet.xlsx", "application/vnd.ms-excel", 9000) EXCEPT
         !.parsed.SheetNames = <<Chars("Sheet1")>>,
         !.parsed.jsonData = <<<<Chars("name"), Chars("city")>>,
                               <<Chars("Ann"), Chars("Oslo")>>>>],
     FileOf("table.ods", "application/vnd.oasis", 9000),
     [FileOf("photo.png", "image/png", 204800) EXCEPT
         !.image = [decodes |-> TRUE, width |-> 1000, height |-> 800,
                    avgBrightness |-> 140, colorVariety |-> 60]],
     FileOf("talk.mp3", "audio/mpeg", 320000),
     FileOf("clip.mp4", "video/mp4", 5000000),
     [FileOf("main.js", "text/javascript", 12) EXCEPT !.text = Chars("let x = 1;\n")],
     FileOf("backup.zip", "application/zip", 2048),
     [FileOf("README", "", 5) EXCEPT !.text = Chars("hello")],
     [FileOf("deck.pptx", "application/vnd.ms-powerpoint", 700) EXCEPT
         !.text = Chars("PK")],
     \* names that differ from the table in letter case, with two dots, and
     \* with a letter whose lower case is longer than itself
     [FileOf("NOTES.MD", "text/markdown", 5) EXCEPT !.text = Chars("hello")],
     FileOf("Report.DOC", "application/msword", 4096),
     FileOf("site.tar.gz", "application/gzip", 2048),
     [FileOf("Istanbul.txt", "text/plain", 7) EXCEPT
         !.name = <<"U+0130">> \o Chars("stanbul.txt"),
         !.text = Chars("merhaba")],
     \* a short and a long recording
     FileOf("beep.wav", "audio/wav", 8000),
     FileOf("concert.flac", "audio/flac", 120000000),
     FileOf("tiny.mp4", "video/mp4", 50000),
     [FileOf("meeting.txt", "text/plain", 20) EXCEPT
         !.text = Chars("Team meeting at noon")]}
    \cup {CsvFile(n) : n \in CsvRowCounts}

\* recordings handed to the speech service: no bytes, less than a second,
\* some seconds, and more than two hours at every bit rate
AudioBlobs ==
    [type : {Chars("audio/webm"), Chars("audio/mp3"), Chars("audio/mpeg"),
             Chars("audio/wav"), Chars("audio/m4a"), <<>>},
     size : {0, 1, 2999, 4000, 1000000, 25000000, 250000000}]

\* files on which the platform or a library fails
BadFiles ==
    {Unreadable(FileOf("lost.txt", "text/plain", 6)),
     Rejecting(FileOf("broken.pdf", "application/pdf", 20480), "Invalid PDF structure."),
     Rejecting(FileOf("secret.pdf", "application/pdf", 20480), "No password given"),
     [FileOf("torn.pdf", "application/pdf", 20480) EXCEPT
         !.parsed.pages = <<[PdfPage(<<>>, FALSE) EXCEPT
                                !.getPageFails = TRUE,
                                !.error = Error("Invalid page request")]>>],
     Unreadable(FileOf("gone.pdf", "application/pdf", 20480)),
     Rejecting(FileOf("broken.docx", "application/msword", 4096),
               "Can't find end of central directory"),
     Rejecting(FileOf("broken.csv", "text/csv", 40), "Unable to parse"),
     Unreadable(FileOf("gone.csv", "text/csv", 40)),
     Rejecting(FileOf("broken.xlsx", "application/vnd.ms-excel", 9000),
               "File is password-protected"),
     FileOf("broken.png", "image/png", 204800),
     Unreadable(FileOf("gone.png", "image/png", 204800)),
     Unreadable(FileOf("gone.js", "text/javascript", 12)),
     Unreadable(FileOf("blob.bin", "application/octet-stream", 5))}

UploadFiles == GoodFiles \cup BadFiles

\* the files that follow the first file of a batch
NextFiles ==
    {f \in UploadFiles : f.name \in {Chars("notes.md"), Chars("todo.txt"),
                                     Chars("lost.txt"), Chars("old.doc"),
                                     Chars("gone.csv")}}

\* the batches: one file, or a file followed by up to MaxFiles - 1 others
Batches ==
    UNION {{<<f>> \o rest : f \in UploadFiles, rest \in [1..k -> NextFiles]} :
              k \in 0..(MaxFiles - 1)}

NoProcessedFile == ProcessedFileOf(<<>>, Chars("unknown"), 0, <<>>, Undefined, Undefined)

UploadInit ==
    /\ files \in Batches
    /\ fileIndex = 0
    /\ isProcessingFiles = FALSE
    /\ upc = "idle"
    /\ awaiting = NotAwaiting
    /\ locals = NoLocals
    /\ processedNotes = <<>>
    /\ savedNotes = <<>>
    /\ resources = NoResources
    /\ calls = <<>>
    /\ ai = NoGeneration
    /\ speech = NoSpeech
    /\ processedFile = NoProcessedFile
    /\ pc = "idle"
    /\ extracted = NotExtracted
    /\ notes = <<>>

file == files[fileIndex]

\* how a step of processFile ends: processFile returns, or it waits for
\* the platform operation op started by caller
Completed(extractedText, thumbnail, duration) ==
    [returns |-> TRUE, extractedText |-> extractedText, thumbnail |-> thumbnail,
     duration |-> duration, awaiting |-> NotAwaiting, locals |-> NoLocals]

Waiting(op, caller, kept) ==
    [returns |-> FALSE, extractedText |-> <<>>, thumbnail |-> Undefined,
     duration |-> Undefined, awaiting |-> [op |-> op, caller |-> caller],
     locals |-> kept]

\* the promise processFile waits for has no handler left that settles it
NeverSettled(caller, kept) == Waiting("none", caller, kept)

\* file.arrayBuffer() rejects with a NotReadableError
ARRAY_BUFFER_ERROR == Error("The requested file could not be read")

\* what file.arrayBuffer() and the parsing library answer for f
loadedDocument(f) ==
    IF f.readFails
    THEN [NoParse EXCEPT !.rejected = TRUE, !.error = ARRAY_BUFFER_ERROR]
    ELSE f.parsed

\* the resources held after a step of processFile of f that was waiting
\* for waited: analyzeImage and detectTextInImage create an object URL for
\* the Image they load, pdfjsLib.getDocument gives a document; the code
\* calls neither URL.revokeObjectURL nor destroy
acquire(held, f, waited, step) ==
    [objectURLs |->
        held.objectURLs
        + (IF /\ step.awaiting.op = "image"
              /\ step.awaiting.caller \in {"analyzeImage", "detectTextInImage"}
           THEN 1 ELSE 0),
     pdfDocuments |->
        held.pdfDocuments
        + (IF waited.caller = "extractPDFText" /\ ~loadedDocument(f).rejected
           THEN 1 ELSE 0)]

\* the step takes effect: on return the ProcessedFile goes to
\* createNotesFromProcessedFile
Continue(f, step) ==
    /\ awaiting' = step.awaiting
    /\ locals' = step.locals
    /\ resources' = acquire(resources, f, awaiting, step)
    /\ IF step.returns
       THEN /\ processedFile' =
                   ProcessedFileOf(f.name, getFileType(getFileExtension(f.name)),
                                   f.size, step.extractedText, step.thumbnail,
                                   step.duration)
            /\ pc' = "ready"
            /\ upc' = "synthesizing"
       ELSE /\ UNCHANGED <<processedFile, pc>>
            /\ upc' = "awaiting"
    /\ UNCHANGED <<files, fileIndex, isProcessingFiles, processedNotes, savedNotes,
                   extracted, notes, calls, serviceVars>>

\* handleFileUpload up to the loop
handleFileUpload ==
    /\ upc = "idle"
    /\ isProcessingFiles' = TRUE
    /\ processedNotes' = <<>>
    /\ fileIndex' = 1
    /\ upc' = "loop"
    /\ UNCHANGED <<files, awaiting, locals, savedNotes, resources, calls, segVars,
                   serviceVars>>

\* processFile and the extractor it dispatches to, up to the first
\* operation of the platform they wait for
dispatch(f) ==
    LET extension == getFileExtension(f.name)
        fileType == getFileType(extension)
    IN  CASE fileType = Chars("text") -> Waiting("readAsText", "processTextFile", NoLocals)
          [] fileType = Chars("document") ->
                IF extension = Chars(".pdf")
                THEN Waiting("arrayBuffer", "extractPDFText", NoLocals)
                ELSE IF extension = Chars(".docx")
                THEN Waiting("arrayBuffer", "extractWordText", NoLocals)
                ELSE IF extension = Chars(".doc")
                THEN Completed(legacyDocMessage, Undefined, Undefined)
                ELSE Completed(documentNotImplemented(extension), Undefined, Undefined)
          [] fileType = Chars("spreadsheet") ->
                IF extension = Chars(".csv")
                THEN Waiting("readAsText", "processCSVFile", NoLocals)
                ELSE IF extension \in {Chars(".xls"), Chars(".xlsx")}
                THEN Waiting("arrayBuffer", "processExcelFile", NoLocals)
                ELSE Completed(unsupportedSpreadsheet(f, extension), Undefined, Undefined)
          [] fileType = Chars("image") -> Waiting("image", "analyzeImage", NoLocals)
          [] fileType = Chars("audio") ->
                LET audioData == processAudioFile(f)
                IN  Completed(audioData.transcription, Undefined, audioData.duration)
          [] fileType = Chars("video") ->
                LET videoData == processVideoFile(f)
                IN  Completed(videoData.transcription, videoData.thumbnail,
                              videoData.duration)
          [] fileType = Chars("code") -> Waiting("readAsText", "processCodeFile", NoLocals)
          [] fileType = Chars("archive") -> Completed(processArchiveFile(f), Undefined, Undefined)
          [] OTHER -> Waiting("readAsText", "processGenericFile", NoLocals)

\* the loop of handleFileUpload calls processFile for the next file
processFile ==
    /\ upc = "loop"
    /\ fileIndex <= Len(files)
    /\ Continue(file, dispatch(file))

\* the image of the file can be decoded
Decodes(f) == f.image.decodes /\ ~f.readFails

\* processImageFile once analyzeImage has resolved with imageInfo and
\* detectTextInImage with hasText; processFile goes on to
\* generateImageThumbnail
imageAnalysed(f, imageInfo, hasText) ==
    Waiting("readAsDataURL", "generateImageThumbnail",
            [extractedText |-> imageAnalysis(f, imageInfo, hasText),
             imageInfo |-> imageInfo])

\* how processFile of f goes on when the platform answers the operation
\* waited for; kept is what processFile has computed so far
platformEvent(f, waited, kept) ==
    LET caller == waited.caller
        \* reader.onload of the FileReader that caller started
        readerLoad ==
            CASE caller = "processTextFile" ->
                    Completed(f.text, Undefined, Undefined)
              [] caller = "processCodeFile" ->
                    Completed(processCodeFile(f, f.text), Undefined, Undefined)
              [] caller = "processGenericFile" ->
                    Completed(processGenericFile(f, f.text), Undefined, Undefined)
              [] caller = "processCSVFile" ->
                    Completed(IF f.parsed.rejected
                              THEN csvError(f, f.parsed.error)
                              ELSE csvComplete(f, f.parsed.data),
                              Undefined, Undefined)
              [] caller = "generateImageThumbnail" ->
                    Waiting("image", "generateImageThumbnail", kept)
        \* the FileReader fails: reader.onerror where the code sets one.
        \* processTextFile rejects, which processGenericFile catches and
        \* processCodeFile and processFile do not; processCSVFile and
        \* generateImageThumbnail set no onerror
        readerError ==
            CASE caller \in {"processTextFile", "processCodeFile"} ->
                    Completed(processFileCatch(TEXT_READ_ERROR), Undefined, Undefined)
              [] caller = "processGenericFile" ->
                    Completed(binaryFileBanner(f), Undefined, Undefined)
              [] caller \in {"processCSVFile", "generateImageThumbnail"} ->
                    NeverSettled(caller, kept)
        \* file.arrayBuffer() and the call of the parsing library have settled
        arrayBuffer ==
            CASE caller = "extractPDFText" ->
                    Completed(extractPDFText(f, loadedDocument(f)), Undefined, Undefined)
              [] caller = "extractWordText" ->
                    Completed(extractWordText(f, loadedDocument(f)), Undefined, Undefined)
              [] caller = "processExcelFile" ->
                    Completed(processExcelFile(f, loadedDocument(f)), Undefined, Undefined)
        \* img.onload of an Image
        imageLoad ==
            CASE caller = "analyzeImage" ->
                    Waiting("image", "detectTextInImage",
                            [kept EXCEPT !.imageInfo = imageLoaded(f.image)])
              [] caller = "detectTextInImage" ->
                    imageAnalysed(f, kept.imageInfo, looksLikeText(f.image))
              [] caller = "generateImageThumbnail" ->
                    Completed(kept.extractedText, thumbnailOf(f), Undefined)
        \* the Image fails to load: img.onerror where the code sets one;
        \* generateImageThumbnail sets none
        imageError ==
            CASE caller = "analyzeImage" ->
                    Waiting("image", "detectTextInImage",
                            [kept EXCEPT !.imageInfo = imageNotLoaded])
              [] caller = "detectTextInImage" ->
                    imageAnalysed(f, kept.imageInfo, FALSE)
              [] caller = "generateImageThumbnail" ->
                    NeverSettled(caller, kept)
    IN  CASE waited.op \in {"readAsText", "readAsDataURL"} ->
                IF f.readFails THEN readerError ELSE readerLoad
          [] waited.op = "arrayBuffer" -> arrayBuffer
          [] waited.op = "image" -> IF Decodes(f) THEN imageLoad ELSE imageError

\* reader.onload of a FileReader
readerOnLoad ==
    /\ upc = "awaiting"
    /\ awaiting.op \in {"readAsText", "readAsDataURL"}
    /\ ~file.readFails
    /\ Continue(file, platformEvent(file, awaiting, locals))

\* reader.onerror of a FileReader
readerOnError ==
    /\ upc = "awaiting"
    /\ awaiting.op \in {"readAsText", "readAsDataURL"}
    /\ file.readFails
    /\ Continue(file, platformEvent(file, awaiting, locals))

\* file.arrayBuffer() and the call of the parsing library have settled
arrayBufferSettled ==
    /\ upc = "awaiting"
    /\ awaiting.op = "arrayBuffer"
    /\ Continue(file, platformEvent(file, awaiting, locals))

\* img.onload of an Image
imageOnLoad ==
    /\ upc = "awaiting"
    /\ awaiting.op = "image"
    /\ Decodes(file)
    /\ Continue(file, platformEvent(file, awaiting, locals))

\* img.onerror of an Image
imageOnError ==
    /\ upc = "awaiting"
    /\ awaiting.op = "image"
    /\ ~Decodes(file)
    /\ Continue(file, platformEvent(file, awaiting, locals))

\* createNotesFromProcessedFile has returned: processedNotes.push and the
\* next round of the loop
pushNotes ==
    /\ upc = "synthesizing"
    /\ pc = "done"
    /\ processedNotes' = processedNotes \o notes
    /\ fileIndex' = fileIndex + 1
    /\ upc' = "loop"
    /\ processedFile' = NoProcessedFile
    /\ pc' = "idle"
    /\ extracted' = NotExtracted
    /\ notes' = <<>>
    /\ UNCHANGED <<files, isProcessingFiles, awaiting, locals, savedNotes, resources,
                   calls, serviceVars>>

\* createNotesFromProcessedFile has thrown: the catch and the finally of
\* handleFileUpload
catchError ==
    /\ upc = "synthesizing"
    /\ pc = "threw"
    /\ isProcessingFiles' = FALSE
    /\ upc' = "finished"
    /\ UNCHANGED <<files, fileIndex, awaiting, locals, processedNotes, savedNotes,
                   resources, calls, segVars, serviceVars>>

\* the loop is over: saveNotes, if there is a note, and the finally
saveNotes ==
    /\ upc = "loop"
    /\ fileIndex > Len(files)
    /\ savedNotes' = IF Len(processedNotes) > 0 THEN processedNotes ELSE savedNotes
    /\ isProcessingFiles' = FALSE
    /\ upc' = "finished"
    /\ UNCHANGED <<files, fileIndex, awaiting, locals, processedNotes, resources,
                   calls, segVars, serviceVars>>

UploadNext ==
    \/ handleFileUpload
    \/ processFile
    \/ readerOnLoad
    \/ readerOnError
    \/ arrayBufferSettled
    \/ imageOnLoad
    \/ imageOnError
    \/ Extract
    \/ CreateNotes
    \/ pushNotes
    \/ catchError
    \/ saveNotes

UploadSpec == UploadInit /\ [][UploadNext]_vars

\* an event of the platform that processFile waits for
PlatformEvent ==
    \/ readerOnLoad
    \/ readerOnError
    \/ arrayBufferSettled
    \/ imageOnLoad
    \/ imageOnError

\* the platform delivers every event it has for a pending operation
FairUploadSpec == UploadSpec /\ WF_vars(PlatformEvent)

-----------------------------------------------------------------------------
(* Calls of processFile in flight at once.  handleFileUpload has no guard   *)
(* against being called again while an earlier invocation awaits, so the    *)
(* steps of the processFile calls of two invocations interleave at every    *)
(* await.  Between two awaits a call runs to completion: the synchronous    *)
(* createNotesFromProcessedFile follows the return of processFile in one    *)
(* step.  Each call has its own parameters and local variables; the class   *)
(* FileProcessor has no field that a call writes.                           *)

MaxCalls == 2

\* Every call has a file and has not run its first statement.  The
\* numbering of the calls is arbitrary: they are numbered by the size of
\* their files.
ConcurrentInit ==
    /\ files \in
          LET handed == {f \in UploadFiles :
                            f.name \in {Chars("notes.md"), Chars("todo.txt"),
                                        Chars("paper.pdf"), Chars("photo.png"),
                                        Chars("lost.txt")}}
          IN  {chosen \in [1..MaxCalls -> handed] :
                  \A k \in 1..(MaxCalls - 1) : chosen[k].size <= chosen[k + 1].size}
    /\ calls = [i \in 1..MaxCalls |->
                   [pc |-> "called", awaiting |-> NotAwaiting, locals |-> NoLocals,
                    processedFile |-> NoProcessedFile, notes |-> <<>>,
                    overlapped |-> FALSE]]
    /\ fileIndex = 0
    /\ isProcessingFiles = FALSE
    /\ upc = "idle"
    /\ awaiting = NotAwaiting
    /\ locals = NoLocals
    /\ processedNotes = <<>>
    /\ savedNotes = <<>>
    /\ resources = NoResources
    /\ ai = NoGeneration
    /\ speech = NoSpeech
    /\ processedFile = NoProcessedFile
    /\ pc = "idle"
    /\ extracted = NotExtracted
    /\ notes = <<>>

\* mutant: extractedText is shared by the calls, and a call returns what
\* another call wrote last
returnedText_Shared(cs, i, step) ==
    LET others == {j \in 1..Len(cs) : j # i /\ cs[j].pc \in {"ready", "extracted", "done"}}
    IN  IF others = {} THEN step.extractedText
        ELSE cs[CHOOSE j \in others : TRUE].processedFile.content

\* the text call i returns: its own local variable extractedText
returnedText(cs, i, step) == step.extractedText

\* call i takes the step of processFile
callContinue(i, step) ==
    /\ calls' =
          [calls EXCEPT ![i] =
              [@ EXCEPT
                  !.pc = IF step.returns THEN "ready" ELSE "awaiting",
                  !.awaiting = step.awaiting,
                  !.locals = step.locals,
                  !.processedFile =
                      IF step.returns
                      THEN ProcessedFileOf(files[i].name,
                                           getFileType(getFileExtension(files[i].name)),
                                           files[i].size, returnedText(calls, i, step),
                                           step.thumbnail, step.duration)
                      ELSE @,
                  \* another call has started and has not finished
                  !.overlapped =
                      @ \/ \E j \in 1..Len(calls) :
                               j # i /\ calls[j].pc \in {"awaiting", "ready"}]]
    /\ UNCHANGED <<files, fileIndex, isProcessingFiles, upc, awaiting, locals,
                   processedNotes, savedNotes, resources, segVars, serviceVars>>

\* an invocation calls processFile for its file
callProcessFile ==
    \E i \in 1..Len(calls) :
        /\ calls[i].pc = "called"
        /\ callContinue(i, dispatch(files[i]))

\* the platform delivers the event a call waits for
callPlatformEvent ==
    \E i \in 1..Len(calls) :
        /\ calls[i].pc = "awaiting"
        /\ calls[i].awaiting.op # "none"
        /\ callContinue(i, platformEvent(files[i], calls[i].awaiting, calls[i].locals))

\* processFile of a call has returned: createNotesFromProcessedFile gives
\* the notes, or throws
callCreateNotes ==
    \E i \in 1..Len(calls) :
        /\ calls[i].pc = "ready"
        /\ LET call == calls[i]
               units == extractNotesFromContent(call.processedFile.content,
                                                call.processedFile.name)
           IN  \/ /\ units.threw
                  /\ calls' = [calls EXCEPT ![i].pc = "threw"]
               \/ /\ ~units.threw
                  \* the clock does not advance during the call, and
                  \* Math.random, which enters the id of a note only and
                  \* which CreateNotes draws from RandomReadings, is held
                  \* at one value
                  /\ \E now \in ClockValues :
                        calls' =
                            [calls EXCEPT ![i] =
                                [@ EXCEPT
                                    !.pc = "done",
                                    !.notes =
                                        createNotes(call.processedFile, Chars("Uploads"),
                                                    units.notes,
                                                    generateSmartTags(call.processedFile),
                                                    [k \in 1..(Len(units.notes) + 1) |-> now],
                                                    [k \in 1..Len(units.notes) |-> 0])]]
        /\ UNCHANGED <<files, fileIndex, isProcessingFiles, upc, awaiting, locals,
                       processedNotes, savedNotes, resources, segVars, serviceVars>>

ConcurrentNext ==
    \/ callProcessFile
    \/ callPlatformEvent
    \/ callCreateNotes

ConcurrentSpec == ConcurrentInit /\ [][ConcurrentNext]_vars

-----------------------------------------------------------------------------
(* AIService.generateResponse: OpenRouter, then Gemini, then the built-in   *)
(* response.  A request is answered by the platform: fetch rejects, the     *)
(* status is not ok, the body has not the expected format, or the body      *)
(* holds a content, which may be null or the empty string.                  *)

\* hasAIService(): some key is a non-empty string
hasAIService(keys) ==
    keys.OPENROUTER_API_KEY \/ keys.DEEPSEEK_API_KEY \/ keys.GEMINI_API_KEY

\* getFallbackResponse: one of four constant texts, of which the title line
\* is kept, and for a summary the sentence with the word count
getFallbackResponse(userInput, noteContent, isEditing) ==
    LET input == ToLowerCase(userInput)
        \* noteContent.split(/\s+/).filter(word => word.length > 0).length
        RECURSIVE Words(_, _)
        Words(p, inWord) ==
            IF p > Len(noteContent) THEN 0
            ELSE IF IsWS(noteContent[p]) THEN Words(p + 1, FALSE)
            ELSE (IF inWord THEN 0 ELSE 1) + Words(p + 1, TRUE)
    IN  [content |->
            IF isEditing
            THEN IF \/ Includes(input, Chars("improve"))
                    \/ Includes(input, Chars("better"))
                    \/ Includes(input, Chars("enhance"))
                 THEN <<"U+2728">> \o Chars(" **AI Writing Enhancement** (Fallback Mode)")
                 ELSE <<"U+270D", "U+FE0F">> \o Chars(" **Writing Assistant Ready!**")
            ELSE IF \/ Includes(input, Chars("summary"))
                    \/ Includes(input, Chars("summarize"))
                 THEN <<"U+D83D", "U+DCDD">>
                      \o Chars(" **Quick Summary:**\n\nThis note contains ")
                      \o NumToString(Words(1, FALSE))
                      \o Chars(" words and covers several key topics.")
                 ELSE <<"U+D83E", "U+DD16">> \o Chars(" **AI Assistant Ready!**")]

\* what tryOpenRouter or tryGemini ends with when the platform answers the
\* request with outcome: an exception, or a response holding the content of
\* the body (data.choices[0].message.content,
\* data.candidates[0].content.parts[0].text)
tryService(outcome) ==
    IF outcome.kind = "content"
    THEN [threw |-> FALSE, content |-> outcome.content]
    ELSE [threw |-> TRUE, content |-> Undefined]

\* mutant: a response is returned whatever its content
producedContent_AnyResponse(attempt) == ~attempt.threw

\* `if (response.content) return response`: no exception, and the content
\* is neither null nor the empty string
producedContent(attempt) ==
    /\ ~attempt.threw
    /\ attempt.content # Undefined
    /\ attempt.content # <<>>

\* the answers of the platform to a request
ServiceOutcomes ==
    {[kind |-> k, content |-> Undefined] :
        k \in {"fetch rejects", "status not ok", "invalid format", "parts missing"}}
    \cup {[kind |-> "content", content |-> c] :
             c \in {Undefined, <<>>, Chars("Here is a tighter version."), Chars(" ")}}

AIInit ==
    /\ ai \in {[NoGeneration EXCEPT
                    !.pc = "called",
                    !.keys = [OPENROUTER_API_KEY |-> o, DEEPSEEK_API_KEY |-> d,
                              GEMINI_API_KEY |-> g],
                    !.userInput = u,
                    !.noteContent = Chars("buy milk\n call  Ann"),
                    !.isEditing = e] :
                 o \in BOOLEAN, d \in BOOLEAN, g \in BOOLEAN, e \in BOOLEAN,
                 u \in {Chars("Improve this"), Chars("Summarize it"), Chars("hello")}}
    /\ speech = NoSpeech
    /\ UploadIdle
    /\ processedFile = NoProcessedFile
    /\ pc = "idle"
    /\ extracted = NotExtracted
    /\ notes = <<>>

\* generateResponse goes on with the services from position from on (1:
\* OpenRouter, 2: Gemini, 3: none left), made being the requests answered
\* so far: the request to the next configured one is sent, or the built-in
\* response is returned
nextService(from, made) ==
    /\ ai' =
          IF from <= 1 /\ ai.keys.OPENROUTER_API_KEY
          THEN [ai EXCEPT !.pc = "tryOpenRouter", !.requests = made]
          ELSE IF from <= 2 /\ ai.keys.GEMINI_API_KEY
          THEN [ai EXCEPT !.pc = "tryGemini", !.requests = made]
          ELSE [ai EXCEPT
                   !.pc = "returned",
                   !.requests = made,
                   !.response = getFallbackResponse(ai.userInput, ai.noteContent,
                                                    ai.isEditing)]
    /\ UNCHANGED <<segVars, uploadVars, speech>>

\* generateResponse up to its first await, or to its return
generateResponse ==
    /\ ai.pc = "called"
    /\ nextService(IF hasAIService(ai.keys) THEN 1 ELSE 3, ai.requests)

\* the request of tryOpenRouter (position 1) or of tryGemini (position 2)
\* is answered
serviceSettled(service, position) ==
    /\ ai.pc = service
    /\ \E outcome \in ServiceOutcomes :
          LET attempt == tryService(outcome)
              made == Append(ai.requests, [service |-> service, outcome |-> outcome])
          IN  IF producedContent(attempt)
              THEN /\ ai' = [ai EXCEPT !.pc = "returned", !.requests = made,
                                       !.response = [content |-> attempt.content]]
                   /\ UNCHANGED <<segVars, uploadVars, speech>>
              ELSE nextService(position + 1, made)

tryOpenRouter == serviceSettled("tryOpenRouter", 1)

tryGemini == serviceSettled("tryGemini", 2)

AINext == generateResponse \/ tryOpenRouter \/ tryGemini

AISpec == AIInit /\ [][AINext]_vars

-----------------------------------------------------------------------------
(* EnhancedSpeechToTextService: the recognizer it shares between the        *)
(* real-time transcription and transcribeAudioWithWebAPI, and one call of   *)
(* transcribeAudioFile.  The recognizer is the platform's SpeechRecognition:*)
(* start() throws an InvalidStateError between a start() and the end event  *)
(* that follows it, stop() returns at once and the end event comes later;   *)
(* an error event is followed by an end event.  Events are delivered to the *)
(* handlers that are installed when they fire.                              *)

\* final results a recognizer delivers to one call of
\* transcribeAudioWithWebAPI
MaxFinalResults == 1

\* the result of fallbackTranscription: the placeholder text up to the
\* recording details (the fixed note and tips that follow are left out),
\* the time stamp being one token
fallbackTranscription(audioBlob) ==
    LET duration == estimateAudioDuration(audioBlob)
        bullet == <<"U+201A", "U+00C4", "U+00A2">>
    IN  [success |-> TRUE,
         text |-> Chars("[Audio Recording - ") \o <<"toLocaleString">> \o Chars("]\n\n")
                  \o <<"U+F8FF", "U+00FC", "U+00EC", "U+03C0">>
                  \o Chars(" **Recording Details:**\n")
                  \o bullet \o Chars(" Duration: ")
                  \o NumToString((2 * duration.num + duration.den) \div (2 * duration.den))
                  \o Chars(" seconds\n")
                  \o bullet \o Chars(" File Size: ")
                  \o ToFixed(audioBlob.size, 1024, 1) \o Chars(" KB\n")
                  \o bullet \o Chars(" Format: ")
                  \o (IF audioBlob.type = <<>> THEN Chars("Unknown") ELSE audioBlob.type),
         confidence |-> [num |-> 1, den |-> 10],
         analysis |-> FALSE]

\* transcribeAudioFile from `if (!transcription)` (line 192) to its return
returnTranscription(s, transcription) ==
    [s EXCEPT
        !.pc = "returned",
        !.result =
            IF transcription = <<>>
            THEN fallbackTranscription(s.audioBlob)
            ELSE [success |-> TRUE,
                  text |-> transcription,
                  confidence |-> [num |-> 9, den |-> 10],
                  analysis |-> s.enableAnalysis /\ Len(transcription) > 10]]

\* the promise of transcribeAudioWithWebAPI resolves with webAPIResult, if it
\* is still pending: transcribeAudioFile goes on with
\* `transcription = webAPIResult.text || ''`
resolveWebAPI(s, webAPIResult) ==
    IF s.pc # "transcribeAudioWithWebAPI" THEN s
    ELSE returnTranscription(s, IF webAPIResult.text = Undefined
                                THEN <<>> ELSE webAPIResult.text)

\* cleanup(): the handlers of the shared recognizer are set to null
cleanup(s) == [s EXCEPT !.handlers = "none"]

\* the executor of the promise of transcribeAudioWithWebAPI, up to
\* audio.play()
transcribeAudioWithWebAPI(s) ==
    LET entered == [s EXCEPT !.pc = "transcribeAudioWithWebAPI",
                             !.tried = Append(@, [service |-> "transcribeAudioWithWebAPI",
                                                  failed |-> FALSE])]
    IN  IF ~s.isSupported
        THEN resolveWebAPI(entered, fallbackTranscription(s.audioBlob))
        ELSE [entered EXCEPT !.handlers = "file", !.hasResult = FALSE,
                             !.transcriptionText = <<>>, !.playPending = TRUE]

\* recognition.stop(): a started recognizer is asked to end
recognitionStop(s) == [s EXCEPT !.ending = s.started]

\* stopRealTimeTranscription
stopped(s) ==
    IF s.isSupported /\ s.isListening
    THEN [recognitionStop(s) EXCEPT !.isListening = FALSE]
    ELSE s

\* the configurations of the service, the recording and the flag of the call
SpeechInit ==
    /\ speech \in {[NoSpeech EXCEPT !.isSupported = supported, !.apiKey = key,
                                    !.audioBlob = audioBlob,
                                    !.enableAnalysis = enableAnalysis] :
                     supported \in BOOLEAN, key \in BOOLEAN, enableAnalysis \in BOOLEAN,
                     audioBlob \in {b \in AudioBlobs :
                                      \/ b.type = Chars("audio/webm") /\ b.size = 4000
                                      \/ b.type = <<>> /\ b.size = 2999}}
    /\ ai = NoGeneration
    /\ UploadIdle
    /\ processedFile = NoProcessedFile
    /\ pc = "idle"
    /\ extracted = NotExtracted
    /\ notes = <<>>

speechBecomes(s) ==
    /\ speech' = s
    /\ UNCHANGED <<segVars, uploadVars, ai>>

startRealTimeTranscription ==
    /\ speech.isSupported
    /\ LET s == [stopped(speech) EXCEPT !.handlers = "realTime"]
       IN  IF s.started
           THEN speechBecomes(s)
           ELSE speechBecomes([s EXCEPT !.started = TRUE, !.session = "realTime",
                                        !.isListening = TRUE])

stopRealTimeTranscription ==
    /\ speech.isListening
    /\ speechBecomes(stopped(speech))

\* transcribeAudioFile up to its first await
transcribeAudioFile ==
    /\ speech.pc = "idle"
    /\ speechBecomes(IF speech.apiKey
                     THEN [speech EXCEPT !.pc = "transcribeWithWhisper"]
                     ELSE transcribeAudioWithWebAPI(speech))

\* the texts a recognizer hears
Transcripts == {Chars("hello there world"), Chars("ok")}

\* the answers to the request of transcribeWithWhisper: the request fails,
\* or the body holds this text
WhisperOutcomes ==
    {[failed |-> TRUE, text |-> Undefined]}
    \cup {[failed |-> FALSE, text |-> t] : t \in Transcripts \cup {<<>>, Undefined}}

\* the request of transcribeWithWhisper is answered: transcribeWithWhisper
\* rethrows a failure, which the catch of transcribeAudioFile takes
whisperSettles ==
    /\ speech.pc = "transcribeWithWhisper"
    /\ \E outcome \in WhisperOutcomes :
          LET s == [speech EXCEPT
                       !.tried = Append(@, [service |-> "transcribeWithWhisper",
                                            failed |-> outcome.failed]),
                       !.whisperText = IF outcome.text = Undefined
                                       THEN <<>> ELSE outcome.text]
          IN  speechBecomes(
                  IF outcome.failed
                  THEN [s EXCEPT !.pc = "returned",
                                 !.result = fallbackTranscription(s.audioBlob)]
                  ELSE IF s.whisperText # <<>>
                  THEN returnTranscription(s, s.whisperText)
                  ELSE transcribeAudioWithWebAPI(s))

\* audio.play() settles: recognition.start() when it resolved, the catch
\* when it rejected or start() threw
audioPlaySettles ==
    /\ speech.playPending
    /\ \E resolved \in BOOLEAN :
          LET s == [speech EXCEPT !.playPending = FALSE]
          IN  speechBecomes(
                  IF resolved /\ ~s.started
                  THEN [s EXCEPT !.started = TRUE, !.session = "file"]
                  ELSE resolveWebAPI(cleanup(s), fallbackTranscription(s.audioBlob)))

\* the recognizer delivers a final result
recognitionResult ==
    /\ speech.started
    /\ speech.handlers = "file"
    /\ speech.results < MaxFinalResults
    /\ \E transcript \in Transcripts :
          speechBecomes([speech EXCEPT !.transcriptionText = @ \o transcript,
                                       !.hasResult = TRUE,
                                       !.results = @ + 1])

\* the recognizer reports an error; its end event follows
recognitionError ==
    /\ speech.started
    /\ ~speech.errored
    /\ LET s == [speech EXCEPT !.errored = TRUE]
       IN  speechBecomes(
               IF s.handlers = "realTime" THEN [s EXCEPT !.isListening = FALSE]
               ELSE IF s.handlers = "file"
               THEN resolveWebAPI(cleanup(s), [success |-> FALSE, text |-> Undefined])
               ELSE s)

\* the session of the recognizer ends
recognitionEnd ==
    /\ speech.started
    /\ LET s == [speech EXCEPT !.started = FALSE, !.session = "none",
                               !.ending = FALSE, !.errored = FALSE]
       IN  speechBecomes(
               IF s.handlers = "realTime" THEN [s EXCEPT !.isListening = FALSE]
               ELSE IF s.handlers = "file"
               THEN resolveWebAPI(cleanup(s),
                                  IF s.hasResult
                                  THEN [success |-> TRUE, text |-> s.transcriptionText,
                                        confidence |-> [num |-> 8, den |-> 10]]
                                  ELSE fallbackTranscription(s.audioBlob))
               ELSE s)

SpeechNext ==
    \/ startRealTimeTranscription
    \/ stopRealTimeTranscription
    \/ transcribeAudioFile
    \/ whisperSettles
    \/ audioPlaySettles
    \/ recognitionResult
    \/ recognitionError
    \/ recognitionEnd

SpeechSpec == SpeechInit /\ [][SpeechNext]_vars

-----------------------------------------------------------------------------
(* Properties of the segmentation engine.                                   *)

content == processedFile.content

fileName == processedFile.name

IsPrefix(a, b) == Len(a) <= Len(b) /\ SubSeq(b, 1, Len(a)) = a

\* the outcome of one strategy applied alone
OutcomeOf(strategy) ==
    CASE strategy = "header" -> headerStrategy(content)
      [] strategy = "numbered" -> numberedStrategy(content)
      [] strategy = "paragraph" -> paragraphStrategy(content, fileName)
      [] strategy = "bullet" -> bulletStrategy(content)
      [] strategy = "row" -> rowStrategy(content)
      [] strategy = "chunk" -> chunkStrategy(content, fileName)
      [] strategy = "single" -> singleStrategy(content, fileName)

\* the first strategy of the fixed order whose precondition holds, with
\* rowPrecondition as the precondition of the row-oriented strategy
FirstStrategy(rowPrecondition) ==
    IF Len(headerMatches(content)) >= 2 THEN "header"
    ELSE IF Len(numberedSections(content)) > 2 THEN "numbered"
    ELSE IF Len(paragraphs(content)) > 1 THEN "paragraph"
    ELSE IF Len(bulletSections(content)) > 2 THEN "bullet"
    ELSE IF rowPrecondition THEN "row"
    ELSE IF Len(content) > 1000 THEN "chunk"
    ELSE "single"

\* C1 (as claimed): the output is produced by the first strategy, in the
\* fixed order, whose precondition holds, the precondition of the
\* row-oriented strategy being that a row marker ('Row 1:' or 'Columns:') is
\* present; no later strategy contributes a unit.
C1_FirstStrategyByRowMarkers ==
    pc = "extracted" =>
        /\ extracted.strategy = FirstStrategy(rowMarkersPresent(content))
        /\ extracted = OutcomeOf(extracted.strategy)

\* C1 (amended): the output is produced by exactly one strategy, the first in
\* the fixed order whose precondition holds, where the row-oriented strategy
\* needs a row marker and more than one 'Row <n>: <payload>' line; a text
\* with a row marker and fewer row lines goes on to chunking or the single
\* unit.  The units are those of that strategy alone.
C1_ExclusiveFirstStrategy ==
    pc = "extracted" =>
        /\ extracted.strategy =
               FirstStrategy(rowMarkersPresent(content) /\ Len(rowMatches(content)) > 1)
        /\ extracted = OutcomeOf(extracted.strategy)

\* C1 witness: a row marker is present, there is one row line, and the
\* single-unit fallback produced the output
C1_Witness_RowMarkerFallsThrough ==
    /\ pc = "extracted"
    /\ rowMarkersPresent(content)
    /\ Len(rowMatches(content)) = 1
    /\ extracted.strategy = "single"

\* C2 (as claimed): whenever extractNotesFromContent returns, it returns a
\* non-empty sequence of units.
C2_UnitsNonEmpty ==
    (pc = "extracted" /\ ~extracted.threw) => Len(extracted.notes) >= 1

\* the k-th heading of the text: its title and the text of its section, from
\* the end of its marker to the start of the next heading
HeadingUnit(k) ==
    LET hm == headerMatches(content)
        from == HeaderMarkerEnd(content, hm[k].from)
        to == IF k < Len(hm) THEN hm[k + 1].from - 1 ELSE Len(content)
    IN  [title |-> Trim(Slice(content, from, hm[k].to - 1)),
         content |-> Trim(Slice(content, from, to))]

HeadingUnits == [k \in 1..Len(headerMatches(content)) |-> HeadingUnit(k)]

\* C3 (as claimed): with at least two heading lines, a header strategy that
\* returns gives exactly one unit per heading, in document order, the k-th
\* titled by the k-th heading.
C3_OneUnitPerHeading ==
    (pc = "extracted" /\ Len(headerMatches(content)) >= 2 /\ ~extracted.threw) =>
        /\ extracted.strategy = "header"
        /\ Len(extracted.notes) = Len(headerMatches(content))
        /\ \A k \in 1..Len(extracted.notes) :
              extracted.notes[k].title = HeadingUnits[k].title

\* C3 (amended): with at least two heading lines the header strategy is the
\* one applied.  When it returns, it returns one unit for each heading whose
\* section (the heading text and what follows, trimmed) is longer than 10
\* characters and none for the other headings, in document order, each
\* titled by its heading with the leading '#' markers stripped.  It throws
\* exactly when the text holds more heading markers than heading lines.
C3_UnitsOfLongSections ==
    (pc = "extracted" /\ Len(headerMatches(content)) >= 2) =>
        /\ extracted.strategy = "header"
        /\ extracted.threw <=>
              Cardinality(HeaderMarkerStarts(content)) > Len(headerMatches(content))
        /\ ~extracted.threw =>
              LET Long(u) == Len(u.content) > 10
              IN  extracted.notes = SelectSeq(HeadingUnits, Long)

\* C3 witness: the header strategy returned fewer units than headings
C3_Witness_HeadingDropped ==
    /\ pc = "extracted"
    /\ extracted.strategy = "header"
    /\ ~extracted.threw
    /\ Len(extracted.notes) >= 1
    /\ Len(extracted.notes) < Len(headerMatches(content))

Unit(title, text) == [title |-> title, content |-> text]

\* C4 (as claimed): Scenario A yields the units ("Intro","Hello") and
\* ("Details","World"): the heading text is not part of the content.
C4_ScenarioA_BodyOnly ==
    (pc = "extracted" /\ content = SCENARIO_A) =>
        extracted.notes =
            <<Unit(<<"I", "n", "t", "r", "o">>, <<"H", "e", "l", "l", "o">>),
              Unit(<<"D", "e", "t", "a", "i", "l", "s">>, <<"W", "o", "r", "l", "d">>)>>

\* C4 (amended): in the header strategy the content of a unit starts with
\* the heading text itself and runs up to, and not including, the next
\* heading; Scenario A yields ("Intro","Intro\nHello") and
\* ("Details","Details\nWorld").
C4_ContentStartsWithHeading ==
    (pc = "extracted" /\ extracted.strategy = "header" /\ ~extracted.threw) =>
        /\ \A k \in 1..Len(extracted.notes) :
              /\ IsPrefix(extracted.notes[k].title, extracted.notes[k].content)
              /\ \E h \in 1..Len(HeadingUnits) : extracted.notes[k] = HeadingUnits[h]
        /\ content = SCENARIO_A =>
              extracted.notes =
                  <<Unit(<<"I", "n", "t", "r", "o">>,
                         <<"I", "n", "t", "r", "o", "\n", "H", "e", "l", "l", "o">>),
                    Unit(<<"D", "e", "t", "a", "i", "l", "s">>,
                         <<"D", "e", "t", "a", "i", "l", "s", "\n",
                           "W", "o", "r", "l", "d">>)>>

\* C4 witness: Scenario A has been segmented
C4_Witness_ScenarioA ==
    pc = "extracted" /\ content = SCENARIO_A /\ Len(extracted.notes) = 2

\* none of the strategies 1-5 matches: fewer than two headings, at most two
\* numbered or bullet segments, at most one long paragraph, no row marker
NoStructure ==
    /\ Len(headerMatches(content)) < 2
    /\ Len(numberedSections(content)) <= 2
    /\ Len(paragraphs(content)) <= 1
    /\ Len(bulletSections(content)) <= 2
    /\ ~rowMarkersPresent(content)

\* the file name without its last '.' and what follows it
StripExtension(name) ==
    LET dots == {p \in 1..Len(name) : name[p] = "."}
    IN  IF dots = {} THEN name ELSE Slice(name, 1, Max(dots) - 1)

\* C5: a text of at most 1000 characters on which none of the strategies
\* 1-5 matches is returned as exactly one unit, with the full input as its
\* content and the file name without its extension ("Extracted Content"
\* when that is empty) as its title.
C5_SingleUnitIsWholeText ==
    (pc = "extracted" /\ NoStructure /\ Len(content) <= 1000) =>
        /\ ~extracted.threw
        /\ extracted.notes =
              <<Unit(IF StripExtension(fileName) = <<>>
                     THEN Chars("Extracted Content")
                     ELSE StripExtension(fileName),
                     content)>>

\* C5 witness: a text of exactly 1000 characters was returned as one unit
C5_Witness_ThresholdLength ==
    /\ pc = "extracted"
    /\ NoStructure
    /\ Len(content) = 1000
    /\ Len(extracted.notes) = 1

\* the least k with k * 800 >= n
CeilDiv800(n) == CHOOSE k \in 0..n : k * 800 >= n /\ (k = 0 \/ (k - 1) * 800 < n)

\* C6: a text of more than 1000 characters on which none of the strategies
\* 1-5 matches is returned as ceil(length / 800) units in text order, the
\* k-th being the k-th run of 800 characters, trimmed, so of at most 800
\* characters; 2500 characters give 4 units.
C6_ChunkCount ==
    (pc = "extracted" /\ NoStructure /\ Len(content) > 1000) =>
        /\ ~extracted.threw
        /\ Len(extracted.notes) = CeilDiv800(Len(content))
        /\ Len(content) = 2500 => Len(extracted.notes) = 4
        /\ \A k \in 1..Len(extracted.notes) :
              /\ Len(extracted.notes[k].content) <= 800
              /\ extracted.notes[k].content =
                     Trim(Substring(content, (k - 1) * 800, k * 800))

\* C6 witness: 2500 characters were cut into 4 chunks
C6_Witness_ScenarioB ==
    /\ pc = "extracted"
    /\ NoStructure
    /\ Len(content) = 2500
    /\ extracted.strategy = "chunk"
    /\ Len(extracted.notes) = 4

\* C8: when segmentation returned n units, createNotesFromProcessedFile
\* returns n notes in unit order, the k-th with the title and content of the
\* k-th unit, all with the file name as sourceFile and with pairwise
\* different ids; it fails only when segmentation threw, so n = 0 gives an
\* empty list and no error.
C8_OneNotePerUnit ==
    /\ pc = "threw" => extracted.threw
    /\ pc = "done" =>
          /\ Len(notes) = Len(extracted.notes)
          /\ \A k \in 1..Len(notes) :
                /\ notes[k].title = extracted.notes[k].title
                /\ notes[k].content = extracted.notes[k].content
                /\ notes[k].sourceFile = fileName
          /\ \A j, k \in 1..Len(notes) : j # k => notes[j].id # notes[k].id

\* C8 witness: two notes of one file were created in the same millisecond
\* with the same random suffix
C8_Witness_SameClockAndRandom ==
    /\ pc = "done"
    /\ Len(notes) >= 2
    /\ notes[1].id[2] = notes[2].id[2]
    /\ notes[1].id[4] = notes[2].id[4]

-----------------------------------------------------------------------------
(* Properties of processFile and of the upload loop.                        *)

\* an extractor fails on the file: its bytes cannot be read, its image
\* cannot be decoded, or the parsing library rejects it
ExtractorFails(f) ==
    LET fileType == getFileType(getFileExtension(f.name))
    IN  \/ f.readFails
        \/ f.parsed.rejected
        \/ \E i \in 1..Len(f.parsed.pages) : f.parsed.pages[i].getPageFails
        \/ fileType = Chars("image") /\ ~f.image.decodes

\* the text is one of the error banners: it is marked as an error, or it is
\* the banner of a file that cannot be read as text
IsErrorBanner(text) ==
    \/ Includes(text, Chars("Error"))
    \/ Includes(text, Chars("cannot be processed as text"))

\* C9 (as claimed): whenever an extractor fails on a file, the content that
\* processFile has for the file, returned or about to be returned, is an
\* error banner, and the type of the returned ProcessedFile is the
\* classified category.
C9_FailureBecomesErrorBanner ==
    (fileIndex \in 1..Len(files) /\ ExtractorFails(file)) =>
        /\ (upc = "synthesizing" /\ pc = "ready") =>
              /\ IsErrorBanner(processedFile.content)
              /\ processedFile.type = getFileType(getFileExtension(file.name))
        /\ (upc = "awaiting" /\ awaiting.caller = "generateImageThumbnail") =>
              IsErrorBanner(locals.extractedText)

\* C10 (as claimed): every call of processFile that waits for the platform
\* eventually returns its ProcessedFile to the upload loop.
C10_ProcessFileCompletes == (upc = "awaiting") ~> (upc = "synthesizing")

\* the notes of the list that come from the file called name
NotesFrom(list, name) ==
    LET FromFile(note) == note.sourceFile = name
    IN  SelectSeq(list, FromFile)

\* C11 (as claimed): when handleFileUpload has finished, a failure on one
\* file of the batch has not kept the notes of the other files from
\* saveNotes: every note that was built is among the saved ones, and a
\* file whose own processing succeeds (notes.md gives two notes) has its
\* notes saved whatever the other files of the batch did.
C11_BatchIsBestEffort ==
    upc = "finished" =>
        /\ \A j \in 1..Len(processedNotes) :
              \E i \in 1..Len(savedNotes) : savedNotes[i] = processedNotes[j]
        /\ \A k \in 1..Len(files) :
              files[k].name = Chars("notes.md") =>
                  Len(NotesFrom(savedNotes, files[k].name)) >= 2

\* C16: a text whose bullet split gives exactly two segments is not
\* segmented by the bullet strategy; the bullet strategy is the one applied
\* exactly when the split gives more than two segments and the header,
\* numbered and paragraph strategies do not match, and then every unit is
\* the trimmed text of a segment after the first, in the order of the
\* segments.
C16_BulletNeedsMoreThanTwoSegments ==
    pc = "extracted" =>
        LET segments == bulletSections(content)
            n == Len(extracted.notes)
        IN  /\ Len(segments) = 2 => extracted.strategy # "bullet"
            /\ extracted.strategy = "bullet" <=>
                  /\ Len(segments) > 2
                  /\ Len(headerMatches(content)) < 2
                  /\ Len(numberedSections(content)) <= 2
                  /\ Len(paragraphs(content)) <= 1
            /\ extracted.strategy = "bullet" =>
                  \E at \in [1..n -> 2..Len(segments)] :
                      /\ \A k \in 1..n : extracted.notes[k].content = Trim(segments[at[k]])
                      /\ \A k \in 1..(n - 1) : at[k] < at[k + 1]

\* C16 witness: one bullet marker, so two segments, and the text went on to
\* the single unit
C16_Witness_TwoSegments ==
    /\ pc = "extracted"
    /\ Len(bulletSections(content)) = 2
    /\ Len(Trim(bulletSections(content)[2])) > 20
    /\ extracted.strategy = "single"

\* processFile has returned the ProcessedFile of the current file
ProcessFileReturned == upc = "synthesizing" /\ pc = "ready"

\* the categories of the table that list the extension
CategoriesOf(extension) ==
    {k \in 1..Len(SUPPORTED_TYPES) :
        \E e \in 1..Len(SUPPORTED_TYPES[k].extensions) :
            SUPPORTED_TYPES[k].extensions[e] = extension}

TableExtensions ==
    UNION {{SUPPORTED_TYPES[k].extensions[e] : e \in 1..Len(SUPPORTED_TYPES[k].extensions)} :
              k \in 1..Len(SUPPORTED_TYPES)}

\* the category found when the table is scanned from its last entry
LastCategory(extension) ==
    IF CategoriesOf(extension) = {} THEN Chars("unknown")
    ELSE SUPPORTED_TYPES[Max(CategoriesOf(extension))].type

\* C12: no extension of the classifier table is listed under two
\* categories, so the category processFile returns for a file is the one a
\* scan of the table in the opposite order finds.
C12_NoExtensionInTwoCategories ==
    /\ \A x \in TableExtensions : Cardinality(CategoriesOf(x)) = 1
    /\ ProcessFileReturned =>
          processedFile.type = LastCategory(getFileExtension(file.name))

\* C12 witness: a file with an extension of the table has been classified
C12_Witness_CsvClassified ==
    /\ ProcessFileReturned
    /\ getFileExtension(file.name) = Chars(".csv")
    /\ processedFile.type = Chars("spreadsheet")

\* the ten categories
Categories ==
    {Chars("text"), Chars("document"), Chars("spreadsheet"), Chars("presentation"),
     Chars("image"), Chars("audio"), Chars("video"), Chars("code"), Chars("archive"),
     Chars("unknown")}

HasDot(name) == \E p \in 1..Len(name) : name[p] = "."

\* the lower case of the part of the name from its last '.' on
LowerCasedExtension(name) ==
    ToLowerCase(Slice(name, Max({p \in 1..Len(name) : name[p] = "."}), Len(name)))

\* the category the classification is said to give
ClaimedCategory(name) ==
    IF ~HasDot(name) \/ CategoriesOf(LowerCasedExtension(name)) = {}
    THEN Chars("unknown")
    ELSE SUPPORTED_TYPES[Min(CategoriesOf(LowerCasedExtension(name)))].type

\* C13 (as claimed): the category of a file is the first category that
\* lists the lower-cased extension after the last '.' of its name, 'unknown'
\* when there is none or the name has no '.'; it is one of the ten
\* categories and the same for names that differ only in letter case.
C13_CategoryOfLowerCasedExtension ==
    ProcessFileReturned =>
        /\ processedFile.type = ClaimedCategory(file.name)
        /\ processedFile.type \in Categories
        /\ ~HasDot(file.name) => processedFile.type = Chars("unknown")
        /\ \A g \in UploadFiles :
              ToLowerCase(g.name) = ToLowerCase(file.name) =>
                  getFileType(getFileExtension(g.name)) = processedFile.type

\* the file is a .csv file that was read and parsed
CsvParsed(f) ==
    /\ getFileExtension(f.name) = Chars(".csv")
    /\ ~f.readFails
    /\ ~f.parsed.rejected

\* the text of the match m in s
MatchText(s, m) == Slice(s, m.from, m.to - 1)

\* C14: for a .csv file parsed as n rows the content reports 'Total Rows: n',
\* holds min(n, 10) preview lines 'Row k: <row k>' numbered from 1 in row
\* order, and for n > 10 reports n - 10 truncated rows without holding
\* them; 15 rows give 'Total Rows: 15' and 10 preview lines.
C14_CsvPreviewIsBounded ==
    (ProcessFileReturned /\ CsvParsed(file)) =>
        LET data == file.parsed.data
            n == Len(data)
            shown == IF n < 10 THEN n ELSE 10
            rows == rowMatches(content)
        IN  /\ Includes(content, Chars("Total Rows: ") \o NumToString(n) \o Chars("\n"))
            /\ Len(rows) = shown
            /\ \A k \in 1..shown :
                  MatchText(content, rows[k]) =
                      Chars("Row ") \o NumToString(k) \o Chars(": ")
                      \o JSONStringifyObject(data[k])
            /\ \A k \in (shown + 1)..n : ~Includes(content, JSONStringifyObject(data[k]))
            /\ n > 10 =>
                  Includes(content, Chars("... (") \o NumToString(n - 10)
                                    \o Chars(" additional rows truncated)"))
            /\ n <= 10 => ~Includes(content, Chars("truncated"))
            /\ n = 15 =>
                  /\ Includes(content, Chars("Total Rows: 15\n"))
                  /\ Len(rows) = 10

\* C14 witness: Scenario C, a .csv file of 15 rows, has been extracted
C14_Witness_ScenarioC ==
    /\ ProcessFileReturned
    /\ CsvParsed(file)
    /\ Len(file.parsed.data) = 15
    /\ Includes(content, Chars("(5 additional rows truncated)"))

\* C15 (as claimed): the content of a .csv file that holds 'Row <n>:' lines
\* is segmented by the row-oriented strategy, one unit per row line.
C15_CsvRowsByRowStrategy ==
    (upc = "synthesizing" /\ pc = "extracted" /\ CsvParsed(file)
     /\ Len(rowMatches(content)) >= 1) =>
        /\ extracted.strategy = "row"
        /\ Len(extracted.notes) = Len(rowMatches(content))

\* C17: for a .doc file processFile waits for no operation that could fail
\* and returns the category 'document' and, as content, exactly the fixed
\* message.
C17_LegacyDocMessage ==
    (fileIndex \in 1..Len(files) /\ getFileExtension(file.name) = Chars(".doc")) =>
        /\ upc # "awaiting"
        /\ ProcessFileReturned =>
              /\ processedFile.content =
                     Chars("Legacy .doc files are not supported. Please convert to .docx format.")
              /\ processedFile.type = Chars("document")

\* C17 witness: a file named with an upper-case .DOC has been returned
C17_Witness_UpperCaseDoc ==
    /\ ProcessFileReturned
    /\ file.name = Chars("Report.DOC")
    /\ processedFile.type = Chars("document")

\* the fraction lies in [1, 7200]
WithinTwoHours(d) ==
    /\ d.den > 0
    /\ d.den <= d.num
    /\ \/ d.num \div d.den < 7200
       \/ d.num \div d.den = 7200 /\ d.num % d.den = 0

\* C18 (as claimed): the duration recorded for an audio or video file, and
\* the duration the speech service estimates for a recording, lie within
\* [1, 7200] seconds.
C18_DurationWithinBounds ==
    /\ (ProcessFileReturned
        /\ processedFile.type \in {Chars("audio"), Chars("video")}) =>
          /\ processedFile.metadata.duration >= 1
          /\ processedFile.metadata.duration <= 7200
    /\ \A audioBlob \in AudioBlobs : WithinTwoHours(estimateAudioDuration(audioBlob))

\* C19 (as claimed): whenever processFile is not waiting inside an
\* extraction, every object URL that an extraction created has been revoked
\* and every PDF document it loaded has been destroyed.
C19_ResourcesReleased ==
    upc # "awaiting" => resources = NoResources

\* the fields of the notes that the clock and Math.random do not enter
WithoutIdAndTime(list) ==
    [k \in 1..Len(list) |->
        [title |-> list[k].title, content |-> list[k].content, type |-> list[k].type,
         tags |-> list[k].tags, summary |-> list[k].summary,
         sourceFile |-> list[k].sourceFile, extractedFrom |-> list[k].extractedFrom]]

RECURSIVE RunAlone(_, _)
\* processFile of f with no other call in flight, up to its return or to
\* the await that never ends
RunAlone(f, step) ==
    IF step.returns \/ step.awaiting.op = "none" THEN step
    ELSE RunAlone(f, platformEvent(f, step.awaiting, step.locals))

\* what processing f alone gives: the outcome "never" when processFile does
\* not return, "threw" when createNotesFromProcessedFile throws, and "notes"
\* with the notes otherwise
NotesAlone(f) ==
    LET step == RunAlone(f, dispatch(f))
        alone == ProcessedFileOf(f.name, getFileType(getFileExtension(f.name)), f.size,
                                 step.extractedText, step.thumbnail, step.duration)
        units == extractNotesFromContent(alone.content, alone.name)
    IN  IF ~step.returns THEN [outcome |-> "never", notes |-> <<>>]
        ELSE IF units.threw THEN [outcome |-> "threw", notes |-> <<>>]
        ELSE [outcome |-> "notes",
              notes |-> WithoutIdAndTime(
                 createNotes(alone, Chars("Uploads"), units.notes, generateSmartTags(alone),
                             [k \in 1..(Len(units.notes) + 1) |-> 0],
                             [k \in 1..Len(units.notes) |-> 0]))]

C21_IdsGloballyUnique ==
    \A k, l \in 1..Len(processedNotes) :
        k # l => processedNotes[k].id # processedNotes[l].id

\* C22: the summary of every note is taken from the content of that note:
\* it is the content when the content has at most 200 characters, and
\* otherwise the first 150 characters of the content, trimmed, followed by
\* "..."; it is never longer than 200 characters.
C22_SummaryIsExtractive ==
    pc = "done" =>
        \A k \in 1..Len(notes) :
            LET text == notes[k].content
                summary == notes[k].summary
            IN  /\ Len(text) <= 200 => summary = text
                /\ Len(text) > 200 =>
                      summary = Trim(SubSeq(text, 1, 150)) \o <<".", ".", ".">>
                /\ Len(summary) <= 200

\* C22 witness: one call has built a note whose content is longer than 200
\* characters, summarised with the ellipsis, and a note with a shorter
\* content, summarised by itself
C22_Witness_LongAndShort ==
    /\ pc = "done"
    /\ \E k, l \in 1..Len(notes) :
          /\ Len(notes[k].content) > 200
          /\ Len(notes[k].summary) = 153
          /\ Len(notes[l].content) \in 1..200
          /\ notes[l].summary = notes[l].content

\* C23 (as claimed): the tags of every note form a set: no tag occurs twice
\* among the category name, "uploaded", "extracted", the slugified base file
\* name and the smart tags.
C23_TagsFormASet ==
    pc = "done" =>
        \A k \in 1..Len(notes) :
            \A i, j \in 1..Len(notes[k].tags) :
                i # j => notes[k].tags[i] # notes[k].tags[j]

\* the requests made, by service
Requested(service) ==
    \E k \in 1..Len(ai.requests) : ai.requests[k].service = service

\* the service whose request gave the response returned, "none" when the
\* response is the built-in one
AnsweredBy ==
    IF ai.requests # <<>> /\ ai.requests[Len(ai.requests)].outcome.kind = "content"
       /\ ai.response = [content |-> ai.requests[Len(ai.requests)].outcome.content]
    THEN ai.requests[Len(ai.requests)].service
    ELSE "none"

C25_DroppedBelowTen ==
    (pc = "extracted" /\ extracted.strategy = "header" /\ ~extracted.threw) =>
        \A k \in 1..Len(HeadingUnits) :
            (\E i \in 1..Len(extracted.notes) : extracted.notes[i] = HeadingUnits[k])
                <=> Len(HeadingUnits[k].content) >= 10

\* C25 (amended): when the header strategy returns, a heading gives no unit
\* exactly when its section has at most 10 characters: a section of exactly
\* 10 characters is dropped, and one of 11 characters is kept.
C25_DroppedUpToTen ==
    (pc = "extracted" /\ extracted.strategy = "header" /\ ~extracted.threw) =>
        \A k \in 1..Len(HeadingUnits) :
            LET kept == \E i \in 1..Len(extracted.notes) :
                            extracted.notes[i] = HeadingUnits[k]
            IN  /\ Len(HeadingUnits[k].content) <= 10 => ~kept
                /\ Len(HeadingUnits[k].content) >= 11 => kept

\* C25 witness: the header strategy returned for a text with a section of
\* exactly 10 characters, which it dropped, and one of 11, which it kept
C25_Witness_TenAndEleven ==
    /\ pc = "extracted"
    /\ extracted.strategy = "header"
    /\ ~extracted.threw
    /\ \E k, l \in 1..Len(HeadingUnits) :
          /\ Len(HeadingUnits[k].content) = 10
          /\ Len(HeadingUnits[l].content) = 11
    /\ Len(extracted.notes) = 1
    /\ Len(extracted.notes[1].content) = 11

\* the lines of the text
LinesOf(text) ==
    LET breaks == {p \in 1..Len(text) : text[p] = "\n"} \cup {0, Len(text) + 1}
    IN  [k \in 1..(Cardinality(breaks) - 1) |->
            LET from == CHOOSE p \in breaks : Cardinality({q \in breaks : q < p}) = k - 1
                to == CHOOSE p \in breaks : Cardinality({q \in breaks : q < p}) = k
            IN  SubSeq(text, from + 1, to - 1)]

\* where the payload of a line 'Row <n>: <payload>' starts, 0 when the line
\* is no such line
PayloadStart(line) ==
    LET starts ==
            {e + 3 : e \in {e \in 5..(Len(line) - 3) :
                /\ line[e + 1] = ":" /\ line[e + 2] = " "
                /\ \E p \in 1..(e - 4) :
                      /\ SubSeq(line, p, p + 3) = <<"R", "o", "w", " ">>
                      /\ \A q \in (p + 4)..e : IsDigit(line[q])}}
    IN  IF starts = {} THEN 0 ELSE CHOOSE p \in starts : \A q \in starts : p <= q

\* the payloads of the row lines of the text, in line order
RowPayloads ==
    LET IsRow(line) == PayloadStart(line) > 0
        rows == SelectSeq(LinesOf(content), IsRow)
    IN  [k \in 1..Len(rows) |-> SubSeq(rows[k], PayloadStart(rows[k]), Len(rows[k]))]

\* the unit claimed for the k-th row line
RowUnit(k) ==
    LET payload == RowPayloads[k]
        record == JSONParse(payload)
        rowK == <<"R", "o", "w", " ">> \o NumToString(k)
    IN  IF record.ok
        THEN [title |->
                 IF Len(record.entries) > 0 /\ Len(record.entries[1].value) > 0
                 THEN SubSeq(record.entries[1].value, 1,
                             IF Len(record.entries[1].value) > 50
                             THEN 50 ELSE Len(record.entries[1].value))
                 ELSE rowK,
              content |->
                 JoinLines([f \in 1..Len(record.entries) |->
                               record.entries[f].key \o <<":", " ">>
                               \o record.entries[f].value])]
        ELSE [title |-> rowK, content |-> payload]

\* C26: when the row strategy is the one applied, the units are those of
\* the lines 'Row <n>: <payload>', one per line and in line order: for a
\* payload that parses as a record the first field value cut to 50
\* characters (or 'Row k') and one 'key: value' line per field; for a
\* payload that does not parse, 'Row k' and the raw payload, the units of
\* the other rows being what they are without it.
C26_OneUnitPerRowLine ==
    (pc = "extracted" /\ extracted.strategy = "row") =>
        /\ ~extracted.threw
        /\ extracted.notes = [k \in 1..Len(RowPayloads) |-> RowUnit(k)]

\* C26 witness: the row strategy returned for a text with a row that
\* parses and a row that does not
C26_Witness_ParsedAndRaw ==
    /\ pc = "extracted"
    /\ extracted.strategy = "row"
    /\ Len(extracted.notes) = 2
    /\ \E k, l \in 1..2 :
          /\ JSONParse(RowPayloads[k]).ok
          /\ ~JSONParse(RowPayloads[l]).ok
          /\ extracted.notes[l].content = RowPayloads[l]

\* C28: extractNotesFromContent returns for every text and file name, also
\* when the split on heading markers yields more sections than there are
\* matched heading lines: no TypeError leaves it.
C28_ExtractReturnsNormally ==
    /\ pc = "extracted" => ~extracted.threw
    /\ pc # "threw"

-----------------------------------------------------------------------------
(* Properties of the speech service.                                        *)

\* the request of transcribeWithWhisper of this call failed
WhisperFailed ==
    \E k \in 1..Len(speech.tried) :
        speech.tried[k].service = "transcribeWithWhisper" /\ speech.tried[k].failed

\* transcribeAudioWithWebAPI was called by this call
WebAPITried ==
    \E k \in 1..Len(speech.tried) : speech.tried[k].service = "transcribeAudioWithWebAPI"

\* C27: when the OpenAI key is configured and the Whisper request fails,
\* transcribeAudioFile has called transcribeAudioWithWebAPI before it
\* returns the placeholder of fallbackTranscription.
C27_WebAPIAfterWhisperFailure ==
    (speech.pc = "returned" /\ speech.apiKey /\ WhisperFailed) => WebAPITried

\* a recognition session started by startRealTimeTranscription is running:
\* the recognizer was started by it, and has neither been asked to stop nor
\* reported an error
RealTimeSessionActive ==
    /\ speech.started
    /\ speech.session = "realTime"
    /\ ~speech.ending
    /\ ~speech.errored

\* C29: isCurrentlyListening() is true exactly while a recognition session
\* started by startRealTimeTranscription is active, whatever the order of
\* start, stop, the events of the recognizer and a transcribeAudioWithWebAPI
\* that replaces the handlers.
C29_ListeningIffSessionActive ==
    speech.isListening <=> RealTimeSessionActive

\* the text a recognizer produced for this call: that of Whisper, or the
\* final results delivered to transcribeAudioWithWebAPI
RecognizedText ==
    IF speech.whisperText # <<>> THEN speech.whisperText
    ELSE IF speech.hasResult THEN speech.transcriptionText
    ELSE <<>>

\* C30: transcribeAudioFile returns confidence 0.9, with the analysis when
\* it is enabled, only for text a recognizer produced; when no recognizer
\* produced text it returns the placeholder of fallbackTranscription, with
\* confidence 0.1 and no analysis.
C30_ConfidenceOnlyForRecognizedText ==
    speech.pc = "returned" =>
        IF RecognizedText # <<>> /\ speech.result.text = RecognizedText
        THEN speech.result.confidence = [num |-> 9, den |-> 10]
        ELSE speech.result = fallbackTranscription(speech.audioBlob)

=============================================================================
